---- MODULE Spec2Model ----
(***************************************************************************)
(* State-machine model of node-express-boilerplate: the paginate utility   *)
(* over the users table, and the token lifecycle behind the auth           *)
(* controller.                                                             *)
(***************************************************************************)
EXTENDS Integers, Sequences, FiniteSets, TLC

VARIABLES
    users,      \* the users table: a sequence of rows, in insertion order
    clock,      \* the current time, in ticks
    res,        \* the last paginate call: its arguments and what it returned
    tokens,     \* the tokens table: a set of rows
    nextTokenId,\* the number of token rows created so far, plus one
    slots,      \* the refresh-tokens requests in flight, one per connection
    last,       \* the last response of the auth controller
    used,       \* the consumptions of token rows so far
    nextUserId, \* the number of user rows created so far, plus one
    mw,         \* the last request the auth middleware has decided
    svc,        \* the last call of the user service and its outcome
    fault,      \* the error on its way through the error middleware
    proc        \* the process: its database connection, server and exit

vars ==
    <<users, clock, res, tokens, nextTokenId, slots, last, used,
      nextUserId, mw, svc, fault, proc>>

authVars == <<tokens, nextTokenId, slots, last, used>>

edgeVars == <<mw, svc, fault>>

\* no request is waiting for its answer
Quiet ==
    /\ ~res.called
    /\ ~last.called
    /\ ~mw.called
    /\ ~svc.called
    /\ fault.stage = "none"

(***************************************************************************)
(* Bounds of the model.                                                    *)
(***************************************************************************)
MaxUsers == 3
MaxClock == 1
MaxTokens == 3

(***************************************************************************)
(* Text values and their ordering. A text value is compared character by   *)
(* character; Code gives the character codes of the texts of the model.    *)
(***************************************************************************)
Names == {"Alice", "Bob", "Carl"}

Code(s) ==
    CASE s = "Alice" -> <<65, 108, 105, 99, 101>>
      [] s = "Bob"   -> <<66, 111, 98>>
      [] s = "Carl"  -> <<67, 97, 114, 108>>
      [] s = "Zed"   -> <<90, 101, 100>>
      [] s = "user"  -> <<117, 115, 101, 114>>
      [] s = "admin" -> <<97, 100, 109, 105, 110>>
      [] OTHER       -> <<>>

Min(a, b) == IF a < b THEN a ELSE b
Max(a, b) == IF a > b THEN a ELSE b

SeqLess(a, b) ==
    \E i \in 1..(Min(Len(a), Len(b)) + 1) :
        /\ \A j \in 1..(i - 1) : a[j] = b[j]
        /\ \/ i = Len(a) + 1 /\ i <= Len(b)
           \/ i <= Len(a) /\ i <= Len(b) /\ a[i] < b[i]

TextLess(s, t) == SeqLess(Code(s), Code(t))

(***************************************************************************)
(* The User model: the role ENUM in its declared order, and row creation.  *)
(***************************************************************************)
roles == <<"user", "admin">>

RoleSet == {roles[i] : i \in 1..Len(roles)}

EnumOrdinal(r) == CHOOSE i \in 1..Len(roles) : roles[i] = r

rawAttributes ==
    [name |-> "STRING", email |-> "STRING", password |-> "STRING",
     role |-> "ENUM", isEmailVerified |-> "BOOLEAN",
     createdAt |-> "DATE", id |-> "UUID"]

\* value.toLowerCase().trim() over the addresses of the model
LowerTrim(email) ==
    CASE email = "Alice.User@Example.com" -> "alice.user@example.com"
      [] email = " bob.user@example.com"  -> "bob.user@example.com"
      [] OTHER                            -> email

\* A password is a sequence of pieces of text, a plaintext one piece.
\* bcrypt.hash(password, 8): the hash is not the password, and
\* bcrypt.compare(password, hash) holds for the hashed password only
Hash(password) == <<"bcrypt">> \o password

isPasswordMatch(user, password) == user.password = Hash(password)

\* the row of a user that is not in the table
NoUser ==
    [id |-> 0, name |-> "", email |-> "", password |-> <<>>, role |-> "",
     isEmailVerified |-> FALSE, createdAt |-> 0]

\* findOne({ where: { email, id: { [Op.ne]: excludeUserId } } }); without an
\* excludeUserId (0) the id is not part of the query
isEmailTaken(table, email, excludeUserId) ==
    \E i \in 1..Len(table) :
        /\ table[i].email = email
        /\ excludeUserId # 0 => table[i].id # excludeUserId

\* a hook that hashes the password on every save
beforeSaveAlways(user, previous) == [user EXCEPT !.password = Hash(@)]

\* the beforeSave hook; previous is the row as it was loaded, and
\* user.changed('password') holds when the password differs from it
beforeSave(user, previous) ==
    IF user.password # previous.password
    THEN [user EXCEPT !.password = Hash(@)]
    ELSE user

\* User.create: the email through its setter, role and isEmailVerified as
\* given, the password hashed by the beforeSave hook
UserCreate(id, name, email, password, role, now) ==
    beforeSave([id |-> id, name |-> name, email |-> LowerTrim(email),
                password |-> password, role |-> role,
                isEmailVerified |-> FALSE, createdAt |-> now],
               NoUser)

\* Object.assign(user, updateBody), the email through its setter
Assign(user, updateBody) ==
    [f \in DOMAIN user |->
        IF f \in DOMAIN updateBody
        THEN IF f = "email" THEN LowerTrim(updateBody[f]) ELSE updateBody[f]
        ELSE user[f]]

\* the unique index on email: another row holds the email of the row
UniqueViolation(table, row) ==
    \E i \in 1..Len(table) : table[i].id # row.id /\ table[i].email = row.email

\* toJSON: the values of the row without the password
toJSON(user) == [f \in DOMAIN user \ {"password"} |-> user[f]]

\* destroy without ON DELETE CASCADE on the tokens of the user
CascadeNone(table, userId) == table

\* User.hasMany(Token, { onDelete: 'CASCADE' }): the token rows left when
\* the user is deleted
Cascade(table, userId) == {row \in table : row.userId # userId}

RemoveAt(table, i) == SubSeq(table, 1, i - 1) \o SubSeq(table, i + 1, Len(table))

(***************************************************************************)
(* JavaScript values reaching paginate. A string is its sequence of        *)
(* characters; an option is absent, a whole number, or a string.           *)
(***************************************************************************)
Absent == [k |-> "absent", n |-> 0, s |-> <<>>]
Num(n) == [k |-> "num", n |-> n, s |-> <<>>]
Str(s) == [k |-> "str", n |-> 0, s |-> s]

NaN == [nan |-> TRUE, v |-> 0]
Whole(v) == [nan |-> FALSE, v |-> v]

DigitChars == <<"0", "1", "2", "3", "4", "5", "6", "7", "8", "9">>

IsDigit(c) == \E d \in 1..10 : DigitChars[d] = c

DigitVal(c) == (CHOOSE d \in 1..10 : DigitChars[d] = c) - 1

\* Boolean coercion: undefined, 0 and "" are falsy.
Truthy(x) ==
    CASE x.k = "absent" -> FALSE
      [] x.k = "num"    -> x.n # 0
      [] x.k = "str"    -> Len(x.s) > 0

RECURSIVE DigitsOf(_)
DigitsOf(n) ==
    IF n < 10 THEN <<DigitChars[n + 1]>>
    ELSE Append(DigitsOf(n \div 10), DigitChars[(n % 10) + 1])

\* String(n) for a whole number n.
NumberToString(n) == IF n < 0 THEN <<"-">> \o DigitsOf(0 - n) ELSE DigitsOf(n)

RECURSIVE SkipSpaces(_)
SkipSpaces(s) ==
    IF Len(s) > 0 /\ s[1] = " " THEN SkipSpaces(Tail(s)) ELSE s

RECURSIVE LeadingDigits(_)
LeadingDigits(s) ==
    IF Len(s) > 0 /\ IsDigit(s[1]) THEN <<s[1]>> \o LeadingDigits(Tail(s))
    ELSE <<>>

RECURSIVE DigitsValue(_, _)
DigitsValue(ds, acc) ==
    IF Len(ds) = 0 THEN acc
    ELSE DigitsValue(Tail(ds), acc * 10 + DigitVal(ds[1]))

\* parseInt(s, 10) of a string: leading blanks are skipped, a sign is read,
\* then the longest run of decimal digits; NaN when there is no digit.
ParseIntChars(s) ==
    LET t    == SkipSpaces(s)
        neg  == Len(t) > 0 /\ t[1] = "-"
        sgn  == Len(t) > 0 /\ t[1] \in {"-", "+"}
        rest == IF sgn THEN Tail(t) ELSE t
        ds   == LeadingDigits(rest)
    IN  IF Len(ds) = 0 THEN NaN
        ELSE Whole(IF neg THEN 0 - DigitsValue(ds, 0) ELSE DigitsValue(ds, 0))

\* parseInt(x, 10): the argument is first converted to a string.
parseInt(x) ==
    CASE x.k = "num" -> ParseIntChars(NumberToString(x.n))
      [] x.k = "str" -> ParseIntChars(x.s)
      [] OTHER       -> NaN

Positive(p) == ~p.nan /\ p.v > 0

RECURSIVE Split(_, _)
Split(s, sep) ==
    IF \A i \in 1..Len(s) : s[i] # sep THEN <<s>>
    ELSE LET i == CHOOSE j \in 1..Len(s) :
                      s[j] = sep /\ \A m \in 1..(j - 1) : s[m] # sep
         IN  <<SubSeq(s, 1, i - 1)>> \o Split(SubSeq(s, i + 1, Len(s)), sep)

(***************************************************************************)
(* The strings of the model, as characters.                                *)
(***************************************************************************)
cName == <<"n", "a", "m", "e">>
cRole == <<"r", "o", "l", "e">>
cCreatedAt == <<"c", "r", "e", "a", "t", "e", "d", "A", "t">>
cAsc == <<"a", "s", "c">>
cDesc == <<"d", "e", "s", "c">>
cDESC == <<"D", "E", "S", "C">>
cDescCap == <<"D", "e", "s", "c">>
cUp == <<"u", "p">>
cTokens == <<"t", "o", "k", "e", "n", "s">>
cPosts == <<"p", "o", "s", "t", "s">>

\* The attribute a sort key names, "" when the model has none of that name.
AttributeOf(key) ==
    CASE key = cName      -> "name"
      [] key = cRole      -> "role"
      [] key = cCreatedAt -> "createdAt"
      [] OTHER            -> ""

(***************************************************************************)
(* paginate (src/utils/paginate.js)                                        *)
(***************************************************************************)
\* order === 'desc' ? 'DESC' : 'ASC'; order is undefined when the option
\* has no ':'.
LowerChar(c) ==
    CASE c = "D" -> "d" [] c = "E" -> "e" [] c = "S" -> "s" [] c = "C" -> "c"
      [] OTHER -> c

DirectionAnyCase(parts) ==
    IF Len(parts) >= 2
       /\ [i \in 1..Len(parts[2]) |-> LowerChar(parts[2][i])] = cDesc
    THEN "DESC" ELSE "ASC"

\* a direction that is ascending for 'asc' only
DirectionAscOnly(parts) ==
    IF Len(parts) >= 2 /\ parts[2] = cAsc THEN "ASC" ELSE "DESC"

Direction(parts) ==
    IF Len(parts) >= 2 /\ parts[2] = cDesc THEN "DESC" ELSE "ASC"

\* a paginate that casts no attribute
CastsToTextNever(attr) == FALSE

\* An ENUM attribute is cast to TEXT.
CastsToText(attr) == attr # "" /\ rawAttributes[attr] = "ENUM"

SortCriterion(sortOption) ==
    LET parts == Split(sortOption, ":")
        attr  == AttributeOf(parts[1])
    IN  [key |-> attr, cast |-> CastsToText(attr), dir |-> Direction(parts)]

DefaultSortAscending == <<[key |-> "createdAt", cast |-> FALSE, dir |-> "ASC"]>>

DefaultSort == <<[key |-> "createdAt", cast |-> FALSE, dir |-> "DESC"]>>

SortOfFirstOnly(sortBy) ==
    IF Truthy(sortBy)
    THEN <<SortCriterion(Split(sortBy.s, ",")[1])>>
    ELSE DefaultSort

SortOf(sortBy) ==
    IF Truthy(sortBy)
    THEN LET opts == Split(sortBy.s, ",")
         IN  [i \in 1..Len(opts) |-> SortCriterion(opts[i])]
    ELSE DefaultSort

LimitOf(limit) ==
    IF Truthy(limit) /\ Positive(parseInt(limit)) THEN parseInt(limit).v ELSE 10

PageOf(page) ==
    IF Truthy(page) /\ Positive(parseInt(page)) THEN parseInt(page).v ELSE 1

OffsetOfPageTimesLimit(page, limit) == page * limit

OffsetOfPageOnly(page, limit) == page - 1

OffsetOf(page, limit) == (page - 1) * limit

CeilDiv(a, b) == (a + b - 1) \div b

(***************************************************************************)
(* The store's side of model.findAndCountAll({where, order, limit,         *)
(* offset}): equality on every key of where, ORDER BY the criteria left    *)
(* to right, then OFFSET and LIMIT. Rows the criteria do not tell apart    *)
(* come in any order.                                                      *)
(***************************************************************************)
MatchesAnyKey(row, where) == \E f \in DOMAIN where : row[f] = where[f]

Matches(row, where) == \A f \in DOMAIN where : row[f] = where[f]

CriterionLess(c, a, b) ==
    CASE c.key = "name"      -> TextLess(a.name, b.name)
      [] c.key = "role"      -> IF c.cast THEN TextLess(a.role, b.role)
                                ELSE EnumOrdinal(a.role) < EnumOrdinal(b.role)
      [] c.key = "createdAt" -> a.createdAt < b.createdAt
      [] OTHER               -> FALSE

CriterionBefore(c, a, b) ==
    IF c.dir = "DESC" THEN CriterionLess(c, b, a) ELSE CriterionLess(c, a, b)

CriterionTie(c, a, b) == ~CriterionLess(c, a, b) /\ ~CriterionLess(c, b, a)

\* a comes strictly before b under ORDER BY order
Before(order, a, b) ==
    \E i \in 1..Len(order) :
        /\ \A j \in 1..(i - 1) : CriterionTie(order[j], a, b)
        /\ CriterionBefore(order[i], a, b)

MatchingIds(table, where) == {i \in 1..Len(table) : Matches(table[i], where)}

\* every arrangement of the rows ids in which no row comes after a row it
\* is strictly before: a first row is any row that none of the others
\* precedes
RECURSIVE Arrangements(_, _, _)
Arrangements(table, ids, order) ==
    IF ids = {} THEN {<<>>}
    ELSE UNION {{<<table[x]>> \o rest :
                    rest \in Arrangements(table, ids \ {x}, order)} :
                x \in {y \in ids :
                          \A z \in ids : ~Before(order, table[z], table[y])}}

Orderings(table, where, order) ==
    Arrangements(table, MatchingIds(table, where), order)

\* a window that takes one row more than the limit
WindowInclusive(rows, limit, offset) ==
    SubSeq(rows, offset + 1, Min(Len(rows), offset + limit + 1))

Window(rows, limit, offset) ==
    SubSeq(rows, offset + 1, Min(Len(rows), offset + limit))

\* User.hasMany(Token, { as: 'tokens' }): the associations of the model
associations == {cTokens}

\* The call fails (it has no result) when an include names no association
\* of the model. The rows an include loads beside each row are not part of
\* the rows of the model.
findAndCountAll(table, q) ==
    IF \E i \in 1..Len(q.include) : q.include[i].association \notin associations
    THEN {}
    ELSE {[count |-> Cardinality(MatchingIds(table, q.where)),
           rows  |-> Window(sorted, q.limit, q.offset)] :
             sorted \in Orderings(table, q.where, q.order)}

\* options.populate.split(',').map((association) => ({ association })), no
\* include without a populate
IncludeOf(options) ==
    IF "populate" \in DOMAIN options /\ Truthy(options.populate)
    THEN LET names == Split(options.populate.s, ",")
         IN  [i \in 1..Len(names) |-> [association |-> names[i]]]
    ELSE <<>>

\* the queryOptions of a call
queryOptionsOf(filter, options) ==
    LET limit == LimitOf(options.limit)
    IN  [where |-> filter, order |-> SortOf(options.sortBy), limit |-> limit,
         offset |-> OffsetOf(PageOf(options.page), limit),
         include |-> IncludeOf(options)]

\* a paginate that counts with one query and fetches the rows with another
StoreCallsCountThenRows(filter, options) ==
    <<[method |-> "count", options |-> queryOptionsOf(filter, options)],
      [method |-> "findAll", options |-> queryOptionsOf(filter, options)]>>

\* the calls paginate makes on the model, in order
StoreCalls(filter, options) ==
    <<[method |-> "findAndCountAll", options |-> queryOptionsOf(filter, options)]>>

\* paginate(model, filter, options): every result the call can return; none
\* when findAndCountAll fails
paginate(table, filter, options) ==
    LET limit == LimitOf(options.limit)
        page  == PageOf(options.page)
    IN  {[results      |-> r.rows,
          page         |-> page,
          limit        |-> limit,
          totalPages   |-> CeilDiv(r.count, limit),
          totalResults |-> r.count] :
             r \in findAndCountAll(table, queryOptionsOf(filter, options))}

\* What res holds when the last response is not a page.
NoOut ==
    [results |-> <<>>, page |-> 0, limit |-> 0, totalPages |-> 0, totalResults |-> 0]

NoCall ==
    [called |-> FALSE, filter |-> <<>>, sortBy |-> Absent, limit |-> Absent,
     page |-> Absent, out |-> NoOut, populate |-> Absent, queries |-> <<>>,
     failed |-> FALSE]

\* One call of paginate on the users table, its arguments drawn from the
\* given sets. Calls are awaited one at a time: res holds the value the call
\* resolved to until the caller has taken it, the calls it made on the
\* model, and whether it was rejected.
PaginateWith(F, S, L, P, Populates) ==
    /\ ~res.called
    /\ \E filter \in F, sortBy \in S, limit \in L, page \in P,
          populate \in Populates :
        LET options == [sortBy |-> sortBy, limit |-> limit, page |-> page,
                        populate |-> populate]
            call == [called |-> TRUE, filter |-> filter, sortBy |-> sortBy,
                     limit |-> limit, page |-> page, out |-> NoOut,
                     populate |-> populate,
                     queries |-> StoreCalls(filter, options), failed |-> TRUE]
        IN  IF paginate(users, filter, options) = {}
            THEN res' = call
            ELSE \E out \in paginate(users, filter, options) :
                     res' = [call EXCEPT !.out = out, !.failed = FALSE]
    /\ UNCHANGED <<users, clock>>
    /\ UNCHANGED <<authVars, nextUserId, edgeVars>>
    /\ UNCHANGED proc

\* a call without a populate
PaginateCall(F, S, L, P) == PaginateWith(F, S, L, P, {Absent})

\* the addresses of the rows of tests/fixtures/user.fixture.js, one per row
FixtureEmails ==
    <<"alice.user@example.com", "bob.user@example.com",
      "charlie.admin@example.com", "dave.user@example.com",
      "erin.user@example.com">>

\* A user row is inserted (User.create); the response is the row, not a page.
InsertUser(People) ==
    /\ Quiet
    /\ nextUserId <= MaxUsers
    /\ \E p \in People :
        users' = Append(users, UserCreate(nextUserId, p[1],
                                          FixtureEmails[nextUserId],
                                          <<"password1">>, p[2], clock))
    /\ nextUserId' = nextUserId + 1
    /\ UNCHANGED <<clock, res>>
    /\ UNCHANGED <<authVars, edgeVars>>
    /\ UNCHANGED proc

Tick ==
    /\ Quiet
    /\ clock < MaxClock
    /\ clock' = clock + 1
    /\ UNCHANGED <<users, res>>
    /\ UNCHANGED <<authVars, nextUserId, edgeVars>>
    /\ UNCHANGED proc

\* The caller takes the resolved value.
Return ==
    /\ res.called
    /\ res' = NoCall
    /\ UNCHANGED <<users, clock>>
    /\ UNCHANGED <<authVars, nextUserId, edgeVars>>
    /\ UNCHANGED proc

(***************************************************************************)
(* Tokens: the Token model, and the token service behind the auth          *)
(* controller.                                                             *)
(***************************************************************************)
tokenTypes ==
    [ACCESS |-> "access", REFRESH |-> "refresh",
     RESET_PASSWORD |-> "resetPassword", VERIFY_EMAIL |-> "verifyEmail"]

\* the JWT_* settings; the clock counts seconds
accessExpirationMinutes == 30
refreshExpirationDays == 30
resetPasswordExpirationMinutes == 10
verifyEmailExpirationMinutes == 10

Minutes(n) == n * 60
Days(n) == n * 24 * 60 * 60

\* how long a token of the type lives, in seconds
Lifetime(type) ==
    CASE type = tokenTypes.ACCESS         -> Minutes(accessExpirationMinutes)
      [] type = tokenTypes.REFRESH        -> Days(refreshExpirationDays)
      [] type = tokenTypes.RESET_PASSWORD -> Minutes(resetPasswordExpirationMinutes)
      [] type = tokenTypes.VERIFY_EMAIL   -> Minutes(verifyEmailExpirationMinutes)
      [] OTHER                            -> 0

\* a token whose signed expiry is the time of issue, not the given expiry
generateTokenExpiringAtIssue(userId, iat, exp, type) ==
    [sub |-> userId, iat |-> iat, exp |-> iat, type |-> type]

\* jwt.sign({ sub: userId, iat, exp, type }, secret): the signed string is a
\* function of the payload, so equal payloads give equal strings
generateToken(userId, iat, exp, type) ==
    [sub |-> userId, iat |-> iat, exp |-> exp, type |-> type]

\* a string that is not a token signed with the secret
NotAToken == [sub |-> 0, iat |-> 0, exp |-> 0, type |-> "none"]

\* Token.create: a row of the tokens table
TokenCreate(id, token, userId, expires, type) ==
    [id |-> id, token |-> token, userId |-> userId, type |-> type,
     expires |-> expires, blacklisted |-> FALSE]

NoDoc == TokenCreate(0, NotAToken, 0, 0, "none")

\* a verifyToken that looks neither at the type of the payload nor at the
\* type of the row
verifyTokenAnyType(table, token, type, now) ==
    IF token = NotAToken \/ token.exp <= now THEN {}
    ELSE {row \in table :
             /\ row.token = token
             /\ row.userId = token.sub
             /\ ~row.blacklisted}

\* verifyToken(token, type): the rows the lookup can return; none when the
\* signature is invalid, the type differs, the token has expired, or no row
\* that is not blacklisted holds the string
verifyToken(table, token, type, now) ==
    IF token = NotAToken \/ token.type # type \/ token.exp <= now THEN {}
    ELSE {row \in table :
             /\ row.token = token
             /\ row.type = type
             /\ row.userId = token.sub
             /\ ~row.blacklisted}

\* the two ways a token row is consumed
Consumptions == {"delete", "blacklist"}

\* the row of the given id is deleted or blacklisted; nothing happens when
\* the table no longer holds a row of that id
Consume(table, doc, how) ==
    IF how = "delete" THEN {row \in table : row.id # doc.id}
    ELSE {IF row.id = doc.id THEN [row EXCEPT !.blacklisted = TRUE] ELSE row :
              row \in table}

\* a token of the type for the user, and the row that persists it
IssueToken(userId, type, now, id) ==
    LET exp == now + Lifetime(type)
        token == generateToken(userId, now, exp, type)
    IN  [token |-> token, expires |-> exp,
         row |-> TokenCreate(id, token, userId, exp, type)]

\* a generateAuthTokens that persists the access token in place of the
\* refresh token
generateAuthTokensSavingAccess(userId, now, id) ==
    LET access == IssueToken(userId, tokenTypes.ACCESS, now, id)
        refresh == IssueToken(userId, tokenTypes.REFRESH, now, id)
    IN  [access |-> [token |-> access.token, expires |-> access.expires],
         refresh |-> [token |-> refresh.token, expires |-> refresh.expires],
         row |-> access.row]

\* generateAuthTokens(user): an access token, which is not persisted, and a
\* refresh token, which is
generateAuthTokens(userId, now, id) ==
    LET refresh == IssueToken(userId, tokenTypes.REFRESH, now, id)
    IN  [access |-> [token |-> generateToken(userId, now,
                                              now + Lifetime(tokenTypes.ACCESS),
                                              tokenTypes.ACCESS),
                     expires |-> now + Lifetime(tokenTypes.ACCESS)],
         refresh |-> [token |-> refresh.token, expires |-> refresh.expires],
         row |-> refresh.row]

getUserById(table, id) == {i \in 1..Len(table) : table[i].id = id}

getUserByEmail(table, email) == {i \in 1..Len(table) : table[i].email = email}

(***************************************************************************)
(* The auth controller. A response is held in last until the client has    *)
(* taken it. used records every consumption: the string, the id of the row *)
(* and the operation. In a response, reused tells whether the string of    *)
(* the request had been consumed before the request began, twice whether   *)
(* the row the request consumed had already been rotated by another        *)
(* request, and changed whether the request changed the users or the       *)
(* tokens table. calls holds the services the handler called, email and    *)
(* token the address and the string of the request ("" and NotAToken when  *)
(* the request carries none), and given the names of the inputs the       *)
(* request carried, of those its handler reads.                            *)
(***************************************************************************)
Response(op, status, reused, twice, changed, calls) ==
    [called |-> TRUE, op |-> op, status |-> status, reused |-> reused,
     twice |-> twice, changed |-> changed, calls |-> calls,
     email |-> "", token |-> NotAToken, given |-> {}]

NoResponse ==
    [called |-> FALSE, op |-> "", status |-> 0, reused |-> FALSE,
     twice |-> FALSE, changed |-> FALSE, calls |-> {},
     email |-> "", token |-> NotAToken, given |-> {}]

\* the input of the name, when the request carries a value for it
Carried(name, value, none) == IF value = none THEN {} ELSE {name}

Used(token, doc, op) == [token |-> token, id |-> doc.id, op |-> op]

UsedStrings == {e.token : e \in used}

CREATED == 201
OK == 200
NO_CONTENT == 204
BAD_REQUEST == 400
UNAUTHORIZED == 401
FORBIDDEN == 403
NOT_FOUND == 404
INTERNAL_SERVER_ERROR == 500

(***************************************************************************)
(* The error middleware. An error is a record: its class, its statusCode   *)
(* (0 when it has none), its message ("" when it has none), whether it is  *)
(* operational, and its stack. fault holds the error passed to next(), the *)
(* environment the process runs in, and the response once it is sent.      *)
(***************************************************************************)
\* httpStatus[statusCode]
httpStatus(statusCode) ==
    CASE statusCode = BAD_REQUEST           -> "Bad Request"
      [] statusCode = UNAUTHORIZED          -> "Unauthorized"
      [] statusCode = FORBIDDEN             -> "Forbidden"
      [] statusCode = NOT_FOUND             -> "Not Found"
      [] statusCode = INTERNAL_SERVER_ERROR -> "Internal Server Error"
      [] OTHER                              -> ""

\* new ApiError(statusCode, message, isOperational = true, stack)
ApiError(statusCode, message, isOperational, stack) ==
    [kind |-> "ApiError", statusCode |-> statusCode, message |-> message,
     isOperational |-> isOperational, stack |-> stack]

\* an error of another class; it has no isOperational property
Thrown(kind, statusCode, message) ==
    [kind |-> kind, statusCode |-> statusCode, message |-> message,
     isOperational |-> FALSE, stack |-> kind]

\* the classes of sequelize the converter knows
StoreErrors == {"ValidationError", "DatabaseError"}

errorConverter(err) ==
    IF err.kind = "ApiError" THEN err
    ELSE LET statusCode ==
                 IF err.statusCode # 0 THEN err.statusCode
                 ELSE IF err.kind \in StoreErrors THEN BAD_REQUEST
                 ELSE INTERNAL_SERVER_ERROR
             message ==
                 IF err.message # "" THEN err.message ELSE httpStatus(statusCode)
         IN  ApiError(statusCode, message, FALSE, err.stack)

NoStack == "none"

\* a handler that masks nothing in production
errorHandlerUnmasked(err, env) ==
    LET statusCode ==
            IF err.statusCode = 0 THEN INTERNAL_SERVER_ERROR ELSE err.statusCode
    IN  [status |-> statusCode, code |-> statusCode,
         message |-> IF err.message # "" THEN err.message
                     ELSE httpStatus(statusCode),
         stack |-> IF env = "development" THEN err.stack ELSE NoStack]

\* the response: its status, and code, message and stack of its body
errorHandler(err, env) ==
    LET masked == env = "production" /\ ~err.isOperational
        statusCode ==
            IF masked \/ err.statusCode = 0 THEN INTERNAL_SERVER_ERROR
            ELSE err.statusCode
        message ==
            IF masked THEN httpStatus(INTERNAL_SERVER_ERROR) ELSE err.message
    IN  [status |-> statusCode, code |-> statusCode,
         message |-> IF message # "" THEN message ELSE httpStatus(statusCode),
         stack |-> IF env = "development" THEN err.stack ELSE NoStack]

NoError == ApiError(0, "", FALSE, NoStack)

NoReply == [status |-> 0, code |-> 0, message |-> "", stack |-> NoStack]

NoFault ==
    [stage |-> "none", env |-> "", thrown |-> NoError, err |-> NoError,
     reply |-> NoReply]

\* a handler passes an error to next(), in a process run with NODE_ENV = env
Throw(Errors, Envs) ==
    /\ Quiet
    /\ \E err \in Errors, env \in Envs :
        fault' = [stage |-> "thrown", env |-> env, thrown |-> err, err |-> err,
                  reply |-> NoReply]
    /\ UNCHANGED <<users, clock, res, nextUserId, mw, svc>>
    /\ UNCHANGED authVars
    /\ UNCHANGED proc

\* app.use(errorConverter)
Convert ==
    /\ fault.stage = "thrown"
    /\ fault' = [fault EXCEPT !.stage = "converted", !.err = errorConverter(@)]
    /\ UNCHANGED <<users, clock, res, nextUserId, mw, svc>>
    /\ UNCHANGED authVars
    /\ UNCHANGED proc

\* app.use(errorHandler)
Handle ==
    /\ fault.stage = "converted"
    /\ fault' = [fault EXCEPT !.stage = "sent",
                              !.reply = errorHandler(fault.err, fault.env)]
    /\ UNCHANGED <<users, clock, res, nextUserId, mw, svc>>
    /\ UNCHANGED authVars
    /\ UNCHANGED proc

\* the client takes the error response
Sent ==
    /\ fault.stage = "sent"
    /\ fault' = NoFault
    /\ UNCHANGED <<users, clock, res, nextUserId, mw, svc>>
    /\ UNCHANGED authVars
    /\ UNCHANGED proc

(***************************************************************************)
(* The user service. A result is the error the call throws, NoError when   *)
(* it returns, and the users table after the call. svc holds the call and  *)
(* its outcome: taken tells whether another row held the email of the body *)
(* (as the setter stores it) when the call began, own whether the row of   *)
(* the call held it, changed whether the call changed the users table,     *)
(* before the row of the call as it was, and owned the number of token     *)
(* rows of the user when the call began.                                   *)
(***************************************************************************)
EmailTaken == ApiError(BAD_REQUEST, "Email already taken", TRUE, "trace")

UserNotFound == ApiError(NOT_FOUND, "User not found", TRUE, "trace")

\* SequelizeUniqueConstraintError, a ValidationError
UniqueConstraintError == Thrown("ValidationError", 0, "Validation error")

RoleOf(userBody) == IF "role" \in DOMAIN userBody THEN userBody.role ELSE "user"

\* createUser(userBody): the email is looked up as it is given, then the row
\* is created
createUser(table, userBody, id, now) ==
    IF isEmailTaken(table, userBody.email, 0)
    THEN [error |-> EmailTaken, users |-> table]
    ELSE LET row == UserCreate(id, userBody.name, userBody.email,
                               userBody.password, RoleOf(userBody), now)
         IN  IF UniqueViolation(table, row)
             THEN [error |-> UniqueConstraintError, users |-> table]
             ELSE [error |-> NoError, users |-> Append(table, row)]

\* updateUserById(userId, updateBody)
updateUserById(table, userId, updateBody) ==
    IF getUserById(table, userId) = {}
    THEN [error |-> UserNotFound, users |-> table]
    ELSE IF "email" \in DOMAIN updateBody
            /\ isEmailTaken(table, updateBody.email, userId)
    THEN [error |-> EmailTaken, users |-> table]
    ELSE LET i == CHOOSE i \in getUserById(table, userId) : TRUE
             row == beforeSave(Assign(table[i], updateBody), table[i])
         IN  IF UniqueViolation(table, row)
             THEN [error |-> UniqueConstraintError, users |-> table]
             ELSE [error |-> NoError, users |-> [table EXCEPT ![i] = row]]

\* deleteUserById(userId)
deleteUserById(table, userId) ==
    IF getUserById(table, userId) = {}
    THEN [error |-> UserNotFound, users |-> table]
    ELSE [error |-> NoError,
          users |-> RemoveAt(table, CHOOSE i \in getUserById(table, userId) : TRUE)]

RowOf(table, userId) ==
    IF getUserById(table, userId) = {} THEN NoUser
    ELSE table[CHOOSE i \in getUserById(table, userId) : TRUE]

NoResult ==
    [called |-> FALSE, op |-> "", id |-> 0, body |-> <<>>, error |-> NoError,
     taken |-> FALSE, own |-> FALSE, changed |-> FALSE, before |-> NoUser,
     owned |-> 0]

\* POST /v1/users
CreateUser(Bodies) ==
    /\ Quiet
    /\ nextUserId <= MaxUsers
    /\ \E userBody \in Bodies :
        LET result == createUser(users, userBody, nextUserId, clock)
        IN  /\ users' = result.users
            /\ nextUserId' =
                   IF result.error = NoError THEN nextUserId + 1 ELSE nextUserId
            /\ svc' = [called |-> TRUE, op |-> "createUser", id |-> nextUserId,
                       body |-> userBody, error |-> result.error,
                       taken |-> \E i \in 1..Len(users) :
                                    users[i].email = LowerTrim(userBody.email),
                       own |-> FALSE, changed |-> result.users # users,
                       before |-> NoUser, owned |-> 0]
    /\ UNCHANGED <<clock, res, mw, fault>>
    /\ UNCHANGED authVars
    /\ UNCHANGED proc

\* PATCH /v1/users/:userId
UpdateUser(Ids, Bodies) ==
    /\ Quiet
    /\ \E userId \in Ids, updateBody \in Bodies :
        LET result == updateUserById(users, userId, updateBody)
            email == IF "email" \in DOMAIN updateBody
                     THEN LowerTrim(updateBody.email) ELSE ""
        IN  /\ users' = result.users
            /\ svc' = [called |-> TRUE, op |-> "updateUserById", id |-> userId,
                       body |-> updateBody, error |-> result.error,
                       taken |-> \E i \in 1..Len(users) :
                                    users[i].email = email /\ users[i].id # userId,
                       own |-> \E i \in 1..Len(users) :
                                  users[i].email = email /\ users[i].id = userId,
                       changed |-> result.users # users,
                       before |-> RowOf(users, userId), owned |-> 0]
    /\ UNCHANGED <<clock, res, nextUserId, mw, fault>>
    /\ UNCHANGED authVars
    /\ UNCHANGED proc

\* DELETE /v1/users/:userId: the row is destroyed, and with it the token
\* rows of the user
DeleteUser(Ids) ==
    /\ Quiet
    /\ \E userId \in Ids :
        LET result == deleteUserById(users, userId)
        IN  /\ users' = result.users
            /\ tokens' = IF result.error = NoError
                         THEN Cascade(tokens, userId) ELSE tokens
            /\ svc' = [called |-> TRUE, op |-> "deleteUserById", id |-> userId,
                       body |-> <<>>, error |-> result.error,
                       taken |-> FALSE, own |-> FALSE,
                       changed |-> result.users # users,
                       before |-> RowOf(users, userId),
                       owned |-> Cardinality({row \in tokens :
                                                 row.userId = userId})]
    /\ UNCHANGED <<clock, res, nextUserId, mw, fault>>
    /\ UNCHANGED <<nextTokenId, slots, last, used>>
    /\ UNCHANGED proc

\* the caller takes what the user service returned or threw
Returned ==
    /\ svc.called
    /\ svc' = NoResult
    /\ UNCHANGED <<users, clock, res, nextUserId, mw, fault>>
    /\ UNCHANGED authVars
    /\ UNCHANGED proc

\* What a request that lacks a value carries in its place: undefined or the
\* empty string, which !value takes alike.
NoString == [sub |-> 0, iat |-> 0, exp |-> 0, type |-> ""]

\* a handler that takes every refreshToken and every token as given
MissingTokenNever(token) == FALSE

\* !req.body || !req.body.refreshToken, and !req.query || !req.query.token
MissingToken(token) == token = NoString

\* !req.body || !req.body.email
MissingEmail(email) == email = ""

\* !req.body || !req.body.password
MissingPassword(password) == password = <<>>

\* POST /v1/auth/register: createUser(req.body), then generateAuthTokens; an
\* error of createUser goes through the error middleware of the process
Register(People) ==
    /\ Quiet
    /\ nextUserId <= MaxUsers
    /\ nextTokenId <= MaxTokens
    /\ \E p \in People :
        LET id == nextUserId
            result == createUser(users,
                                 [name |-> p[1], email |-> p[2], password |-> p[3]],
                                 id, clock)
        IN  IF result.error # NoError
            THEN /\ \E env \in {"development", "test", "production"} :
                        last' = Response("register",
                                         errorHandler(errorConverter(result.error),
                                                      env).status,
                                         FALSE, FALSE, FALSE,
                                         {"userService"})
                 /\ UNCHANGED <<users, tokens, nextTokenId, nextUserId>>
            ELSE /\ users' = result.users
                 /\ nextUserId' = nextUserId + 1
                 /\ tokens' = tokens \cup
                                {generateAuthTokens(id, clock, nextTokenId).row}
                 /\ nextTokenId' = nextTokenId + 1
                 /\ last' = Response("register", CREATED, FALSE, FALSE, TRUE,
                                     {"userService", "tokenService"})
    /\ UNCHANGED <<clock, res, slots, used>>
    /\ UNCHANGED edgeVars
    /\ UNCHANGED proc

\* POST /v1/auth/login
Login(Emails, Passwords) ==
    /\ Quiet
    /\ nextTokenId <= MaxTokens
    /\ \E email \in Emails, password \in Passwords :
        LET found == getUserByEmail(users, email)
        IN  IF found = {} \/ \A i \in found : ~isPasswordMatch(users[i], password)
            THEN /\ last' = [Response("login", UNAUTHORIZED, FALSE, FALSE, FALSE,
                                      {"authService"})
                                EXCEPT !.email = email]
                 /\ UNCHANGED <<tokens, nextTokenId>>
            ELSE \E i \in found :
                 /\ tokens' = tokens \cup
                                {generateAuthTokens(users[i].id, clock, nextTokenId).row}
                 /\ nextTokenId' = nextTokenId + 1
                 /\ last' = [Response("login", OK, FALSE, FALSE, TRUE,
                                      {"authService", "tokenService"})
                                EXCEPT !.email = email]
    /\ UNCHANGED <<users, clock, res, slots, used>>
    /\ UNCHANGED <<nextUserId, edgeVars>>
    /\ UNCHANGED proc

\* a lookup that takes a blacklisted row for the refresh token as well
logoutLookupAny(table, token) ==
    {row \in table : row.token = token /\ row.type = tokenTypes.REFRESH}

\* authService.logout, the lookup: Token.findOne({ where: { token, type:
\* REFRESH, blacklisted: false } }); the rows it can return
logoutLookup(table, token) ==
    {row \in table :
        /\ row.token = token
        /\ row.type = tokenTypes.REFRESH
        /\ ~row.blacklisted}

\* POST /v1/auth/logout: without a refreshToken 400; else the refresh token's
\* row is found and consumed
Logout(Strings) ==
    /\ Quiet
    /\ \E token \in Strings :
        LET docs == logoutLookup(tokens, token)
        IN  IF MissingToken(token)
            THEN /\ last' = [Response("logout", BAD_REQUEST, FALSE, FALSE, FALSE,
                                      {})
                                EXCEPT !.token = token,
                                       !.given = Carried("refreshToken", token, NoString)]
                 /\ UNCHANGED <<tokens, used>>
            ELSE IF docs = {}
            THEN /\ last' = [Response("logout", NOT_FOUND, token \in UsedStrings,
                                      FALSE, FALSE,
                                      {"authService"})
                                EXCEPT !.token = token,
                                       !.given = Carried("refreshToken", token, NoString)]
                 /\ UNCHANGED <<tokens, used>>
            ELSE \E doc \in docs, how \in Consumptions :
                 /\ tokens' = Consume(tokens, doc, how)
                 /\ used' = used \cup {Used(token, doc, "logout")}
                 /\ last' = [Response("logout", NO_CONTENT, token \in UsedStrings,
                                      FALSE, TRUE,
                                      {"authService"})
                                EXCEPT !.token = token,
                                       !.given = Carried("refreshToken", token, NoString)]
    /\ UNCHANGED <<users, clock, res, nextTokenId, slots>>
    /\ UNCHANGED <<nextUserId, edgeVars>>
    /\ UNCHANGED proc

IdleSlot ==
    [pc |-> "idle", token |-> NotAToken, doc |-> NoDoc, stale |-> FALSE,
     userId |-> 0]

\* the connections refresh-tokens requests arrive on
Requests == {1, 2}

\* a refreshAuth that removes the rows of the presented string before it
\* verifies the string
RefreshVerifyDeleting(r, Strings) ==
    /\ Quiet
    /\ slots[r].pc = "idle"
    /\ \E token \in Strings :
        LET docs == verifyToken(tokens, token, tokenTypes.REFRESH, clock)
        IN  IF docs = {}
            THEN /\ last' = [Response("refreshTokens", UNAUTHORIZED,
                                      token \in UsedStrings, FALSE, FALSE,
                                      {"authService"})
                             EXCEPT !.given = Carried("refreshToken", token, NoString)]
                 /\ tokens' = {row \in tokens : row.token # token}
                 /\ UNCHANGED slots
            ELSE \E doc \in docs :
                 /\ slots' = [slots EXCEPT ![r] =
                                 [pc |-> "verified", token |-> token, doc |-> doc,
                                  stale |-> token \in UsedStrings,
                                  userId |-> doc.userId]]
                 /\ UNCHANGED <<last, tokens>>
    /\ UNCHANGED <<users, clock, res, nextTokenId, used>>
    /\ UNCHANGED <<nextUserId, edgeVars>>
    /\ UNCHANGED proc

\* POST /v1/auth/refresh-tokens: without a refreshToken 400; else the first
\* step of refreshAuth: the token is verified and its row looked up
RefreshVerify(r, Strings) ==
    /\ Quiet
    /\ slots[r].pc = "idle"
    /\ \E token \in Strings :
        LET docs == verifyToken(tokens, token, tokenTypes.REFRESH, clock)
        IN  IF MissingToken(token)
            THEN /\ last' = [Response("refreshTokens", BAD_REQUEST, FALSE, FALSE,
                                      FALSE, {})
                             EXCEPT !.given = Carried("refreshToken", token, NoString)]
                 /\ UNCHANGED slots
            ELSE IF docs = {}
            THEN /\ last' = [Response("refreshTokens", UNAUTHORIZED,
                                      token \in UsedStrings, FALSE, FALSE,
                                      {"authService"})
                             EXCEPT !.given = Carried("refreshToken", token, NoString)]
                 /\ UNCHANGED slots
            ELSE \E doc \in docs :
                 /\ slots' = [slots EXCEPT ![r] =
                                 [pc |-> "verified", token |-> token, doc |-> doc,
                                  stale |-> token \in UsedStrings,
                                  userId |-> doc.userId]]
                 /\ UNCHANGED last
    /\ UNCHANGED <<users, clock, res, tokens, nextTokenId, used>>
    /\ UNCHANGED <<nextUserId, edgeVars>>
    /\ UNCHANGED proc

\* second step of refreshAuth: the user of the row is fetched, the row is
\* consumed and a new pair is issued
RefreshRotate(r) ==
    /\ Quiet
    /\ slots[r].pc = "verified"
    /\ nextTokenId <= MaxTokens
    /\ LET doc == slots[r].doc
           twice == \E e \in used : e.id = doc.id /\ e.op = "refreshTokens"
       IN  IF getUserById(users, doc.userId) = {}
           THEN /\ last' = [Response("refreshTokens", UNAUTHORIZED, slots[r].stale,
                                     twice, FALSE,
                                     {"authService"})
                            EXCEPT !.given = {"refreshToken"}]
                /\ UNCHANGED <<tokens, nextTokenId, used>>
           ELSE \E how \in Consumptions :
                /\ tokens' = Consume(tokens, doc, how) \cup
                               {generateAuthTokens(doc.userId, clock, nextTokenId).row}
                /\ nextTokenId' = nextTokenId + 1
                /\ used' = used \cup {Used(slots[r].token, doc, "refreshTokens")}
                /\ last' = [Response("refreshTokens", OK, slots[r].stale, twice, TRUE,
                                     {"authService"})
                            EXCEPT !.given = {"refreshToken"}]
    /\ slots' = [slots EXCEPT ![r] = IdleSlot]
    /\ UNCHANGED <<users, clock, res>>
    /\ UNCHANGED <<nextUserId, edgeVars>>
    /\ UNCHANGED proc

NoUsersFound ==
    ApiError(NOT_FOUND, "No users found with this email", TRUE, "trace")

\* a generateResetPasswordToken that does not look the user up
generateResetPasswordTokenUnchecked(table, email, now, id) ==
    [error |-> NoError,
     issued |-> {IssueToken(0, tokenTypes.RESET_PASSWORD, now, id)}]

\* generateResetPasswordToken(email): the error it throws, NoError when it
\* returns, and the tokens it can issue and persist
generateResetPasswordToken(table, email, now, id) ==
    LET found == getUserByEmail(table, email)
    IN  IF found = {}
        THEN [error |-> NoUsersFound, issued |-> {}]
        ELSE [error |-> NoError,
              issued |-> {IssueToken(table[i].id, tokenTypes.RESET_PASSWORD,
                                     now, id) : i \in found}]

\* a save that keeps one row for each user and type
saveTokenUpsert(table, row) ==
    {old \in table : ~(old.userId = row.userId /\ old.type = row.type)}
        \cup {row}

\* saveToken: Token.create, a new row; no unique index is on the table
saveToken(table, row) == table \cup {row}

\* the tokens table refuses a row whose userId is not the id of a user
ForeignKeyError ==
    Thrown("DatabaseError", 0,
           "insert or update on table violates foreign key constraint")

\* POST /v1/auth/login when requests run side by side, its first await:
\* authService.loginUserWithEmailAndPassword. The request of connection r
\* holds the user it found until its second await.
LoginCheck(r, Emails, Passwords) ==
    /\ Quiet
    /\ slots[r].pc = "idle"
    /\ \E email \in Emails, password \in Passwords :
        LET found == getUserByEmail(users, email)
        IN  IF found = {} \/ \A i \in found : ~isPasswordMatch(users[i], password)
            THEN /\ last' = [Response("login", UNAUTHORIZED, FALSE, FALSE, FALSE,
                                      {"authService"})
                                EXCEPT !.email = email]
                 /\ UNCHANGED slots
            ELSE \E i \in found :
                 /\ slots' = [slots EXCEPT ![r] =
                                 [IdleSlot EXCEPT !.pc = "checked",
                                                  !.userId = users[i].id]]
                 /\ UNCHANGED last
    /\ UNCHANGED <<users, clock, res, tokens, nextTokenId, used>>
    /\ UNCHANGED <<nextUserId, edgeVars>>
    /\ UNCHANGED proc

\* its second await: tokenService.generateAuthTokens(user); the pair is
\* signed at the time of the call and the refresh token saved
LoginIssue(r) ==
    /\ Quiet
    /\ slots[r].pc = "checked"
    /\ nextTokenId <= MaxTokens
    /\ LET userId == slots[r].userId
       IN  IF getUserById(users, userId) = {}
           THEN /\ \E env \in {"development", "test", "production"} :
                       last' = Response("login",
                                        errorHandler(errorConverter(ForeignKeyError),
                                                     env).status,
                                        FALSE, FALSE, FALSE,
                                        {"authService", "tokenService"})
                /\ UNCHANGED <<tokens, nextTokenId>>
           ELSE /\ tokens' = saveToken(tokens,
                                       generateAuthTokens(userId, clock,
                                                          nextTokenId).row)
                /\ nextTokenId' = nextTokenId + 1
                /\ last' = Response("login", OK, FALSE, FALSE, TRUE,
                                    {"authService", "tokenService"})
    /\ slots' = [slots EXCEPT ![r] = IdleSlot]
    /\ UNCHANGED <<users, clock, res, used>>
    /\ UNCHANGED <<nextUserId, edgeVars>>
    /\ UNCHANGED proc

\* POST /v1/auth/forgot-password: without an email 400; else the token is
\* generated and then mailed
ForgotPassword(Emails) ==
    /\ Quiet
    /\ nextTokenId <= MaxTokens
    /\ \E email \in Emails :
        LET result == generateResetPasswordToken(users, email, clock, nextTokenId)
        IN  IF MissingEmail(email)
            THEN /\ last' = [Response("forgotPassword", BAD_REQUEST, FALSE, FALSE,
                                      FALSE, {})
                                EXCEPT !.email = email,
                                       !.given = Carried("email", email, "")]
                 /\ UNCHANGED <<tokens, nextTokenId>>
            ELSE IF result.error # NoError
            THEN /\ last' = [Response("forgotPassword", result.error.statusCode,
                                      FALSE, FALSE, FALSE,
                                      {"tokenService"})
                                EXCEPT !.email = email,
                                       !.given = Carried("email", email, "")]
                 /\ UNCHANGED <<tokens, nextTokenId>>
            ELSE \E issue \in result.issued :
                 /\ tokens' = tokens \cup {issue.row}
                 /\ nextTokenId' = nextTokenId + 1
                 /\ last' = [Response("forgotPassword", NO_CONTENT, FALSE, FALSE,
                                      TRUE,
                                      {"tokenService", "emailService"})
                                EXCEPT !.email = email,
                                       !.given = Carried("email", email, "")]
    /\ UNCHANGED <<users, clock, res, slots, used>>
    /\ UNCHANGED <<nextUserId, edgeVars>>
    /\ UNCHANGED proc

\* POST /v1/auth/reset-password: without a password or without a token 400;
\* else the token is verified, the password of its user is set and the token
\* is consumed
ResetPassword(Strings, Passwords) ==
    /\ Quiet
    /\ \E token \in Strings, password \in Passwords :
        LET docs == verifyToken(tokens, token, tokenTypes.RESET_PASSWORD, clock)
        IN  IF MissingPassword(password) \/ MissingToken(token)
            THEN /\ last' = [Response("resetPassword", BAD_REQUEST, FALSE, FALSE,
                                      FALSE, {})
                             EXCEPT !.given = Carried("password", password, <<>>)
                                              \cup Carried("token", token, NoString)]
                 /\ UNCHANGED <<users, tokens, used>>
            ELSE IF docs = {} \/ getUserById(users, token.sub) = {}
            THEN /\ last' = [Response("resetPassword", UNAUTHORIZED,
                                      token \in UsedStrings, FALSE, FALSE,
                                      {"authService"})
                             EXCEPT !.given = Carried("password", password, <<>>)
                                              \cup Carried("token", token, NoString)]
                 /\ UNCHANGED <<users, tokens, used>>
            ELSE \E doc \in docs, i \in getUserById(users, token.sub),
                    how \in Consumptions :
                 /\ users' = [users EXCEPT ![i].password = Hash(password)]
                 /\ tokens' = Consume(tokens, doc, how)
                 /\ used' = used \cup {Used(token, doc, "resetPassword")}
                 /\ last' = [Response("resetPassword", NO_CONTENT,
                                      token \in UsedStrings, FALSE, TRUE,
                                      {"authService"})
                             EXCEPT !.given = Carried("password", password, <<>>)
                                              \cup Carried("token", token, NoString)]
    /\ UNCHANGED <<clock, res, nextTokenId, slots>>
    /\ UNCHANGED <<nextUserId, edgeVars>>
    /\ UNCHANGED proc

\* POST /v1/auth/send-verification-email, as an authenticated user
SendVerificationEmail ==
    /\ Quiet
    /\ nextTokenId <= MaxTokens
    /\ \E i \in 1..Len(users) :
        /\ tokens' = tokens \cup
                       {IssueToken(users[i].id, tokenTypes.VERIFY_EMAIL,
                                   clock, nextTokenId).row}
        /\ nextTokenId' = nextTokenId + 1
        /\ last' = Response("sendVerificationEmail", NO_CONTENT, FALSE, FALSE, TRUE,
                            {"tokenService", "emailService"})
    /\ UNCHANGED <<users, clock, res, slots, used>>
    /\ UNCHANGED <<nextUserId, edgeVars>>
    /\ UNCHANGED proc

\* POST /v1/auth/verify-email: without a token 400; else the token is
\* verified, its user is marked verified and the token is consumed
VerifyEmail(Strings) ==
    /\ Quiet
    /\ \E token \in Strings :
        LET docs == verifyToken(tokens, token, tokenTypes.VERIFY_EMAIL, clock)
        IN  IF MissingToken(token)
            THEN /\ last' = [Response("verifyEmail", BAD_REQUEST, FALSE, FALSE,
                                      FALSE, {})
                             EXCEPT !.given = Carried("token", token, NoString)]
                 /\ UNCHANGED <<users, tokens, used>>
            ELSE IF docs = {} \/ getUserById(users, token.sub) = {}
            THEN /\ last' = [Response("verifyEmail", UNAUTHORIZED,
                                      token \in UsedStrings, FALSE, FALSE,
                                      {"authService"})
                             EXCEPT !.given = Carried("token", token, NoString)]
                 /\ UNCHANGED <<users, tokens, used>>
            ELSE \E doc \in docs, i \in getUserById(users, token.sub),
                    how \in Consumptions :
                 /\ users' = [users EXCEPT ![i].isEmailVerified = TRUE]
                 /\ tokens' = Consume(tokens, doc, how)
                 /\ used' = used \cup {Used(token, doc, "verifyEmail")}
                 /\ last' = [Response("verifyEmail", NO_CONTENT,
                                      token \in UsedStrings, FALSE, TRUE,
                                      {"authService"})
                             EXCEPT !.given = Carried("token", token, NoString)]
    /\ UNCHANGED <<clock, res, nextTokenId, slots>>
    /\ UNCHANGED <<nextUserId, edgeVars>>
    /\ UNCHANGED proc

\* the client takes the response of its request
Respond ==
    /\ last.called
    /\ last' = NoResponse
    /\ UNCHANGED <<users, clock, res, tokens, nextTokenId, slots, used>>
    /\ UNCHANGED <<nextUserId, edgeVars>>
    /\ UNCHANGED proc

(***************************************************************************)
(* The auth middleware: the passport jwt strategy resolves the bearer      *)
(* token to a user, then verifyCallback checks the rights the route        *)
(* requires. mw holds the request and what the middleware decided.         *)
(***************************************************************************)
allRoles == [user |-> {}, admin |-> {"getUsers", "manageUsers"}]

roleRights(role) == allRoles[role]

\* the jwt strategy: the signature and the expiry are checked, then the type
\* of the payload, then the user of payload.sub is fetched
jwtVerify(table, payload, now) ==
    IF payload = NotAToken \/ payload.exp <= now
            \/ payload.type # tokenTypes.ACCESS
    THEN {}
    ELSE getUserById(table, payload.sub)

Resolve == [resolved |-> TRUE, status |-> 0, message |-> ""]

Reject(status, message) ==
    [resolved |-> FALSE, status |-> status, message |-> message]

\* a verifyCallback without the rule for the user's own record
verifyCallbackRightsOnly(user, requiredRights, userId) ==
    IF user = NoUser
    THEN Reject(UNAUTHORIZED, "Please authenticate")
    ELSE IF /\ requiredRights # {}
            /\ ~(\A requiredRight \in requiredRights :
                     requiredRight \in roleRights(user.role))
         THEN Reject(FORBIDDEN, "Forbidden")
         ELSE Resolve

\* userId is req.params.userId, 0 on a route without the parameter
verifyCallback(user, requiredRights, userId) ==
    IF user = NoUser
    THEN Reject(UNAUTHORIZED, "Please authenticate")
    ELSE IF /\ requiredRights # {}
            /\ ~(\A requiredRight \in requiredRights :
                     requiredRight \in roleRights(user.role))
            /\ userId # user.id
         THEN Reject(FORBIDDEN, "Forbidden")
         ELSE Resolve

NoRequest ==
    [called |-> FALSE, token |-> NotAToken, rights |-> {}, userId |-> 0,
     user |-> NoUser, resolved |-> FALSE, status |-> 0, message |-> ""]

\* a request with a bearer token on a route guarded by auth(...requiredRights)
auth(Strings, Rights, Params) ==
    /\ Quiet
    /\ \E token \in Strings, requiredRights \in Rights, userId \in Params :
        LET found == jwtVerify(users, token, clock)
            user == IF found = {} THEN NoUser ELSE users[CHOOSE i \in found : TRUE]
            verdict == verifyCallback(user, requiredRights, userId)
        IN  mw' = [called |-> TRUE, token |-> token, rights |-> requiredRights,
                   userId |-> userId, user |-> user,
                   resolved |-> verdict.resolved, status |-> verdict.status,
                   message |-> verdict.message]
    /\ UNCHANGED <<users, clock, res, nextUserId, svc, fault>>
    /\ UNCHANGED authVars
    /\ UNCHANGED proc

\* the request goes on to its handler, or the rejection to the client
Proceed ==
    /\ mw.called
    /\ mw' = NoRequest
    /\ UNCHANGED <<users, clock, res, nextUserId, svc, fault>>
    /\ UNCHANGED authVars
    /\ UNCHANGED proc

TokenTypeSet ==
    {tokenTypes.ACCESS, tokenTypes.REFRESH,
     tokenTypes.RESET_PASSWORD, tokenTypes.VERIFY_EMAIL}

\* A long time passes between two requests, once: to the last second before
\* a token issued now expires, or to the second it expires.
Elapse(Spans) ==
    /\ Quiet
    /\ clock <= MaxClock
    /\ \E span \in Spans : clock' = clock + span
    /\ UNCHANGED <<users, res, nextUserId>>
    /\ UNCHANGED <<authVars, edgeVars>>
    /\ UNCHANGED proc

(***************************************************************************)
(* The process (src/index.js): the database connection is authenticated,   *)
(* then the server listens; an unexpected error closes the server, then    *)
(* the database connection, then exits.                                    *)
(***************************************************************************)
\* unexpected errors and signals the process receives
MaxEvents == 3
\* connections open on the server at one time
MaxConnections == 2

Running == [code |-> -1, by |-> "none"]

\* the process before sequelize.authenticate() has settled; let server is
\* undefined
Booting ==
    [db |-> "connecting", server |-> "undefined", conns |-> 0, events |-> 0,
     onClose |-> 0, dbClosing |-> 0, exit |-> Running, log |-> <<>>]

\* process.exit(code), reached from the place named by
exit(p, code, by) == [p EXCEPT !.exit = [code |-> code, by |-> by]]

info(p, message) == [p EXCEPT !.log = Append(@, message)]

\* server.close(): the server stops accepting; a callback waits for 'close'
close(p, callbacks) ==
    [p EXCEPT !.server = IF @ \in {"starting", "listening"} THEN "closing" ELSE @,
              !.onClose = @ + callbacks]

\* an exit handler that does not wait for the server or the database
exitHandlerAtOnce(p) == exit(p, 1, "exitHandler")

\* exitHandler: with a server, close it and go on in the callback; with
\* none, exit(1)
exitHandler(p) ==
    IF p.server # "undefined" THEN close(p, 1) ELSE exit(p, 1, "exitHandler")

\* .then of authenticate: 'Connected to PostgreSQL', server = app.listen(...)
AuthenticateResolves ==
    /\ proc.exit = Running
    /\ proc.db = "connecting"
    /\ proc' = [info(proc, "Connected to PostgreSQL") EXCEPT
                    !.db = "connected", !.server = "starting"]
    /\ UNCHANGED <<users, clock, res, nextUserId, authVars, edgeVars>>

\* .catch of authenticate: the error is logged, process.exit(1)
AuthenticateRejects ==
    /\ proc.exit = Running
    /\ proc.db = "connecting"
    /\ proc' = exit([proc EXCEPT !.db = "failed"], 1, "catch")
    /\ UNCHANGED <<users, clock, res, nextUserId, authVars, edgeVars>>

\* the callback of app.listen: 'Listening to port'
Listening ==
    /\ proc.exit = Running
    /\ proc.server = "starting"
    /\ proc' = [info(proc, "Listening to port") EXCEPT !.server = "listening"]
    /\ UNCHANGED <<users, clock, res, nextUserId, authVars, edgeVars>>

\* a client opens a connection to the listening server
Connect ==
    /\ proc.exit = Running
    /\ proc.server = "listening"
    /\ proc.conns < MaxConnections
    /\ proc' = [proc EXCEPT !.conns = @ + 1]
    /\ UNCHANGED <<users, clock, res, nextUserId, authVars, edgeVars>>

\* a connection ends
Disconnect ==
    /\ proc.exit = Running
    /\ proc.conns > 0
    /\ proc' = [proc EXCEPT !.conns = @ - 1]
    /\ UNCHANGED <<users, clock, res, nextUserId, authVars, edgeVars>>

\* process.on('uncaughtException' | 'unhandledRejection'):
\* unexpectedErrorHandler logs the error and calls exitHandler
UnexpectedError ==
    /\ proc.exit = Running
    /\ proc.events < MaxEvents
    /\ proc' = exitHandler([proc EXCEPT !.events = @ + 1])
    /\ UNCHANGED <<users, clock, res, nextUserId, authVars, edgeVars>>

\* process.on('SIGTERM'): 'SIGTERM received', server.close() if there is a
\* server, with no callback
Sigterm ==
    /\ proc.exit = Running
    /\ proc.events < MaxEvents
    /\ LET p == info([proc EXCEPT !.events = @ + 1], "SIGTERM received")
       IN  proc' = IF p.server # "undefined" THEN close(p, 0) ELSE p
    /\ UNCHANGED <<users, clock, res, nextUserId, authVars, edgeVars>>

\* the server emits 'close' once it accepts nothing and its connections
\* have ended: every waiting callback of exitHandler logs 'Server closed'
\* and calls sequelize.close()
RECURSIVE infoTimes(_, _, _)
infoTimes(p, message, n) ==
    IF n = 0 THEN p ELSE infoTimes(info(p, message), message, n - 1)

ServerClosed ==
    /\ proc.exit = Running
    /\ proc.conns = 0
    /\ \/ proc.server = "closing"
       \/ proc.server = "closed" /\ proc.onClose > 0
    /\ proc' = [infoTimes(proc, "Server closed", proc.onClose) EXCEPT
                    !.server = "closed", !.onClose = 0,
                    !.dbClosing = @ + proc.onClose]
    /\ UNCHANGED <<users, clock, res, nextUserId, authVars, edgeVars>>

\* .then of sequelize.close(): 'Database connection closed', process.exit(1)
DatabaseClosed ==
    /\ proc.exit = Running
    /\ proc.dbClosing > 0
    /\ proc' = exit([info(proc, "Database connection closed") EXCEPT
                         !.db = "closed", !.dbClosing = @ - 1],
                    1, "exitHandler")
    /\ UNCHANGED <<users, clock, res, nextUserId, authVars, edgeVars>>

(***************************************************************************)
(* What the new observations hold while nothing is observed.               *)
(***************************************************************************)

Init ==
    /\ users = <<>>
    /\ clock = 0
    /\ res = NoCall
    /\ tokens = {}
    /\ nextTokenId = 1
    /\ slots = [r \in Requests |-> IdleSlot]
    /\ last = NoResponse
    /\ used = {}
    /\ nextUserId = 1
    /\ mw = NoRequest
    /\ svc = NoResult
    /\ fault = NoFault
    /\ proc = Booting

(***************************************************************************)
(* Arguments the calls are drawn from.                                     *)
(***************************************************************************)
\* the rows of tests/fixtures/user.fixture.js, and one more Alice
Fixtures == {<<"Alice", "user">>, <<"Bob", "user">>, <<"Carl", "admin">>}
SomePeople == Fixtures \cup {<<"Alice", "admin">>}
AllPeople == Names \X RoleSet

NoFilter == <<>>
ByRole(r) == [f \in {"role"} |-> r]
ByName(n) == [f \in {"name"} |-> n]
ByNameAndRole(n, r) == [f \in {"name", "role"} |-> IF f = "name" THEN n ELSE r]

FilterNames == {"Alice", "Zed"}

AllFilters ==
    {NoFilter} \cup {ByRole(r) : r \in RoleSet} \cup {ByName(n) : n \in FilterNames}
        \cup {ByNameAndRole(n, r) : n \in FilterNames, r \in RoleSet}

Pair(key, dir) == key \o <<":">> \o dir
Then(a, b) == a \o <<",">> \o b

sNameAsc == Str(Pair(cName, cAsc))
sNameDesc == Str(Pair(cName, cDesc))
sNameDESC == Str(Pair(cName, cDESC))
sNameDescCap == Str(Pair(cName, cDescCap))
sRoleDescNameAsc == Str(Then(Pair(cRole, cDesc), Pair(cName, cAsc)))
sRoleAscNameDesc == Str(Then(Pair(cRole, cAsc), Pair(cName, cDesc)))
sNameAscRoleDesc == Str(Then(Pair(cName, cAsc), Pair(cRole, cDesc)))

AllSorts ==
    {sNameAsc, sNameDesc, sNameDESC, sNameDescCap,
     sRoleDescNameAsc, sRoleAscNameDesc, sNameAscRoleDesc}

SomeSorts == {Absent, sNameAsc}

\* limit and page as whole numbers, as numerals, and as the other values a
\* caller can pass
NumberInputs == {Num(n) : n \in -1..3}

StringInputs ==
    {Str(<<>>), Str(<<"0">>), Str(<<"2">>), Str(<<"-", "1">>),
     Str(<<"a", "b", "c">>), Str(<<"2", "x">>), Str(<<"x", "2">>)}

AllOptionValues == {Absent} \cup NumberInputs \cup StringInputs

SmallLimits == {Absent, Num(1), Num(2)}
SmallPages == {Absent, Num(2)}
PageLimits == {Absent, Str(<<"2">>)} \cup {Num(n) : n \in 1..3}
PagePages == {Absent, Str(<<"2">>)} \cup {Num(n) : n \in 1..4}

\* the people who register, and what the clients of the auth routes send
AuthPeople ==
    {<<"Alice", "alice.user@example.com", <<"password1">>>>,
     <<"Alice", "Alice.User@Example.com", <<"password1">>>>,
     <<"Bob", "bob.user@example.com", <<"password1">>>>}

OnePerson == {<<"Alice", "alice.user@example.com", <<"password1">>>>}

AuthEmails == {"alice.user@example.com", "nobody@example.com"}

AuthPasswords == {<<"password1">>, <<"password2">>}

\* every string the secret can have signed so far for a user of the table,
\* and one it has not signed
TokenStrings ==
    {NotAToken} \cup
    {generateToken(u, t, t + Lifetime(type), type) :
        u \in 1..(nextUserId - 1), t \in 0..clock,
        type \in {tokenTypes.ACCESS, tokenTypes.REFRESH,
                  tokenTypes.RESET_PASSWORD, tokenTypes.VERIFY_EMAIL}}

\* the lifetime of a token of the type, and one second less
NearExpiry(type) == {Lifetime(type) - 1, Lifetime(type)}

\* the strings a client holds: those of the rows of the table, those that
\* were consumed, the access token of each registration, and one the secret
\* has not signed
HeldStrings ==
    {NotAToken} \cup {row.token : row \in tokens} \cup UsedStrings
        \cup {generateAuthTokens(users[i].id, users[i].createdAt, 0).access.token :
                  i \in 1..Len(users)}

\* the rights a route can require, and the userId parameter of a request
RightsSets == SUBSET {"getUsers", "manageUsers"}

UserIdParams == 0..MaxUsers

\* the errors the handlers pass on: ApiErrors of the services, and errors
\* of other classes with and without a statusCode and a message
Environments == {"development", "test", "production"}

ApiErrors ==
    {ApiError(BAD_REQUEST, "Email already taken", TRUE, "trace"),
     ApiError(UNAUTHORIZED, "Please authenticate", TRUE, "trace"),
     ApiError(FORBIDDEN, "Forbidden", TRUE, "trace"),
     ApiError(NOT_FOUND, "User not found", TRUE, "trace"),
     ApiError(NOT_FOUND, "Not found", FALSE, "trace"),
     ApiError(INTERNAL_SERVER_ERROR, "Email not sent", FALSE, "trace")}

OtherErrors ==
    {Thrown(kind, statusCode, message) :
        kind \in StoreErrors \cup {"Error"},
        statusCode \in {0, NOT_FOUND},
        message \in {"", "Validation error", "relation does not exist"}}

\* the bodies of the user routes: new users, one under a second spelling of
\* an address, and updates of a name, an address and a password
CreateBodies ==
    {[name |-> "Alice", email |-> "alice.user@example.com",
      password |-> <<"password1">>],
     [name |-> "Alice", email |-> "Alice.User@Example.com",
      password |-> <<"password1">>, role |-> "admin"],
     [name |-> "Bob", email |-> "bob.user@example.com",
      password |-> <<"password2">>]}

UpdateBodies ==
    {[name |-> "Zed"],
     [email |-> "alice.user@example.com"],
     [email |-> "Alice.User@Example.com"],
     [password |-> <<"password2">>],
     [name |-> "Zed", password |-> <<"password1">>]}

UserIds == 1..MaxUsers

\* two people who register, and the addresses clients ask a reset for
TwoPeople ==
    {<<"Alice", "alice.user@example.com", <<"password1">>>>,
     <<"Bob", "bob.user@example.com", <<"password1">>>>}

ForgotEmails ==
    {"alice.user@example.com", "bob.user@example.com", "nobody@example.com"}

\* what the clients of the auth routes send when they leave an input out
StringsOrNone == HeldStrings \cup {NoString}

EmailsOrNone == AuthEmails \cup {""}

PasswordsOrNone == {<<"password2">>, <<>>}

\* the populate of a call: none, the association of the model, and a list
\* that names a second one, which the model does not have
Populates == {Absent, Str(cTokens), Str(Then(cTokens, cPosts))}

\* sort pairs with a direction that is not 'desc', with none, and on the
\* ENUM attribute
sName == Str(cName)
sNameBlank == Str(Pair(cName, <<>>))
sNameUp == Str(Pair(cName, cUp))
sRole == Str(cRole)
sRoleAsc == Str(Pair(cRole, cAsc))
sRoleDesc == Str(Pair(cRole, cDesc))
sRoleNameDesc == Str(Then(cRole, Pair(cName, cDesc)))

DirectionSorts ==
    {sName, sNameBlank, sNameUp, sNameAsc, sNameDesc, sRole, sRoleAsc,
     sRoleDesc, sRoleNameDesc, sNameAscRoleDesc}

WalkSorts == {Absent, sNameAsc, sNameAscRoleDesc}
WalkLimits == {Absent} \cup {Num(n) : n \in 1..3}
WalkPages == {Absent, Num(2), Num(3)}

(***************************************************************************)
(* Specifications.                                                         *)
(***************************************************************************)
\* filters of every shape over every store
NextFilter ==
    \/ Return
    \/ InsertUser(AllPeople)
    \/ PaginateCall(AllFilters, SomeSorts, SmallLimits, SmallPages)

SpecFilter == Init /\ [][NextFilter]_vars

\* every valid limit and page over every store; the rows are created within
\* one tick, so the default order leaves their order open
NextPage ==
    \/ Return
    \/ InsertUser(Fixtures)
    \/ PaginateCall({NoFilter}, SomeSorts, PageLimits, PagePages)
    \/ PaginateCall({ByRole("user")}, {sNameAsc}, PageLimits, PagePages)

SpecPage == Init /\ [][NextPage]_vars

\* every value of limit against every value of page
NextOptions ==
    \/ Return
    \/ InsertUser({<<"Alice", "user">>, <<"Bob", "user">>})
    \/ PaginateCall({NoFilter}, {Absent}, AllOptionValues, AllOptionValues)

SpecOptions == Init /\ [][NextOptions]_vars

\* every sortBy over every store
NextSort ==
    \/ Return
    \/ InsertUser(SomePeople)
    \/ PaginateCall({NoFilter}, AllSorts, {Absent}, {Absent})
    \/ PaginateCall({NoFilter}, AllSorts, {Num(2)}, {Num(2)})

SpecSort == Init /\ [][NextSort]_vars

\* no sortBy, over stores whose rows are created at different times
NextDefault ==
    \/ Return
    \/ InsertUser(Fixtures)
    \/ Tick
    \/ PaginateCall({NoFilter, ByRole("user")}, {Absent},
                    {Absent, Num(2)}, {Absent, Num(2)})

SpecDefault == Init /\ [][NextDefault]_vars

\* the auth routes, two refresh-tokens requests at a time
NextAuth ==
    \/ Respond
    \/ Tick
    \/ Register(AuthPeople)
    \/ Login(AuthEmails, AuthPasswords)
    \/ Logout(TokenStrings)
    \/ \E r \in Requests : RefreshVerify(r, TokenStrings)
    \/ \E r \in Requests : RefreshRotate(r)
    \/ ForgotPassword(AuthEmails)
    \/ ResetPassword(TokenStrings, AuthPasswords)
    \/ SendVerificationEmail
    \/ VerifyEmail(TokenStrings)

SpecAuth == Init /\ [][NextAuth]_vars

\* refresh-tokens and logout over tokens of every age
NextRefresh ==
    \/ Respond
    \/ Elapse(NearExpiry(tokenTypes.REFRESH))
    \/ Register(OnePerson)
    \/ Logout(HeldStrings)
    \/ \E r \in Requests : RefreshVerify(r, HeldStrings)
    \/ \E r \in Requests : RefreshRotate(r)

SpecRefresh == Init /\ [][NextRefresh]_vars

\* requests with access tokens of every age, while refresh tokens come
\* and go
NextAccess ==
    \/ Proceed
    \/ Respond
    \/ Tick
    \/ Elapse(NearExpiry(tokenTypes.ACCESS))
    \/ Register(OnePerson)
    \/ Login(AuthEmails, {<<"password1">>})
    \/ Logout(HeldStrings)
    \/ auth(HeldStrings, {{}}, {0})

SpecAccess == Init /\ [][NextAccess]_vars

\* tokens of every type presented to every operation
NextTypes ==
    \/ Respond
    \/ Proceed
    \/ Register(OnePerson)
    \/ ForgotPassword(AuthEmails)
    \/ SendVerificationEmail
    \/ Logout(HeldStrings)
    \/ \E r \in Requests : RefreshVerify(r, HeldStrings)
    \/ \E r \in Requests : RefreshRotate(r)
    \/ ResetPassword(HeldStrings, {<<"password2">>})
    \/ VerifyEmail(HeldStrings)
    \/ auth(HeldStrings, {{}}, {0})

SpecTypes == Init /\ [][NextTypes]_vars

\* errors of every class through the error middleware, in every environment
NextErrors ==
    \/ Throw(ApiErrors \cup OtherErrors, Environments)
    \/ Convert
    \/ Handle
    \/ Sent

SpecErrors == Init /\ [][NextErrors]_vars

\* the user service: users created, updated and deleted
NextUsers ==
    \/ Returned
    \/ CreateUser(CreateBodies)
    \/ UpdateUser(UserIds, UpdateBodies)
    \/ DeleteUser(UserIds)

SpecUsers == Init /\ [][NextUsers]_vars

\* users who hold tokens of every persisted type are deleted, also while a
\* refresh-tokens request is in flight
NextCascade ==
    \/ Respond
    \/ Returned
    \/ Register(AuthPeople)
    \/ ForgotPassword(AuthEmails)
    \/ SendVerificationEmail
    \/ DeleteUser(UserIds)
    \/ \E r \in Requests : RefreshVerify(r, TokenStrings)
    \/ \E r \in Requests : RefreshRotate(r)

SpecCascade == Init /\ [][NextCascade]_vars

\* requests of users and admins on routes of every guard
NextGuard ==
    \/ Proceed
    \/ Elapse(NearExpiry(tokenTypes.ACCESS))
    \/ InsertUser({<<"Alice", "user">>, <<"Carl", "admin">>})
    \/ auth(HeldStrings, RightsSets, UserIdParams)

SpecGuard == Init /\ [][NextGuard]_vars

\* forgot-password for the addresses of users and of nobody, while reset
\* tokens are used
NextForgot ==
    \/ Respond
    \/ Tick
    \/ Register(TwoPeople)
    \/ ForgotPassword(ForgotEmails)
    \/ ResetPassword(HeldStrings, {<<"password2">>})

SpecForgot == Init /\ [][NextForgot]_vars

\* logout with every string a client holds, among the refresh tokens of two
\* users
NextLogout ==
    \/ Respond
    \/ Tick
    \/ Register(TwoPeople)
    \/ Login({"alice.user@example.com"}, {<<"password1">>})
    \/ Logout(HeldStrings)

SpecLogout == Init /\ [][NextLogout]_vars

\* pairs issued on register, on login and on refresh, to two users
NextIssue ==
    \/ Respond
    \/ Tick
    \/ Register(TwoPeople)
    \/ Login(AuthEmails, AuthPasswords)
    \/ \E r \in Requests : RefreshVerify(r, HeldStrings)
    \/ \E r \in Requests : RefreshRotate(r)

SpecIssue == Init /\ [][NextIssue]_vars

\* requests on the auth routes with and without their inputs
NextInputs ==
    \/ Respond
    \/ Register(OnePerson)
    \/ SendVerificationEmail
    \/ ForgotPassword(EmailsOrNone)
    \/ Logout(StringsOrNone)
    \/ \E r \in Requests : RefreshVerify(r, StringsOrNone)
    \/ \E r \in Requests : RefreshRotate(r)
    \/ ResetPassword(StringsOrNone, PasswordsOrNone)
    \/ VerifyEmail(StringsOrNone)

SpecInputs == Init /\ [][NextInputs]_vars

\* logins of one user side by side, while other tokens are issued
NextConcurrent ==
    \/ Respond
    \/ Tick
    \/ Register(TwoPeople)
    \/ ForgotPassword(ForgotEmails)
    \/ \E r \in Requests : LoginCheck(r, AuthEmails, AuthPasswords)
    \/ \E r \in Requests : LoginIssue(r)

SpecConcurrent == Init /\ [][NextConcurrent]_vars

\* calls with every filter, sort and populate over users who hold tokens
NextQueries ==
    \/ Return
    \/ Respond
    \/ InsertUser(Fixtures)
    \/ Register(OnePerson)
    \/ PaginateWith({NoFilter, ByRole("user"), ByNameAndRole("Alice", "user")},
                    {Absent, sNameAsc, sRoleDescNameAsc},
                    {Absent, Num(1)}, {Absent, Num(2)}, Populates)

SpecQueries == Init /\ [][NextQueries]_vars

\* every direction, on a STRING and on the ENUM attribute
NextDirection ==
    \/ Return
    \/ InsertUser(SomePeople)
    \/ PaginateCall({NoFilter}, DirectionSorts, {Absent}, {Absent})

SpecDirection == Init /\ [][NextDirection]_vars

\* page after page of one store, under sorts that tell every pair of rows
\* apart and sorts that do not
NextWalk ==
    \/ Return
    \/ InsertUser(SomePeople)
    \/ PaginateCall({NoFilter, ByRole("user")}, WalkSorts, WalkLimits, WalkPages)

SpecWalk == Init /\ [][NextWalk]_vars

\* the life of the process, from start to exit
NextLifecycle ==
    \/ AuthenticateResolves
    \/ AuthenticateRejects
    \/ Listening
    \/ Connect
    \/ Disconnect
    \/ UnexpectedError
    \/ Sigterm
    \/ ServerClosed
    \/ DatabaseClosed

SpecLifecycle == Init /\ [][NextLifecycle]_vars

(***************************************************************************)
(* Properties of paginate. While res.called holds, users is the table the  *)
(* call ran against.                                                       *)
(***************************************************************************)
out == res.out

\* the rows of the table that carry the filter's value in every filtered field
FilterMatched ==
    {i \in 1..Len(users) : \A f \in DOMAIN res.filter : users[i][f] = res.filter[f]}

NamesOf(rows) == [i \in 1..Len(rows) |-> rows[i].name]

\* C1: results holds only rows equal to the filter on every filtered field
\* (keys ANDed), totalResults counts all such rows whatever the limit and
\* the offset, the empty filter matches every row, and a filter nothing
\* matches gives results=[], totalResults=0, totalPages=0.
C1_FilterExact ==
    res.called =>
        /\ \A i \in 1..Len(out.results) :
               out.results[i] \in {users[j] : j \in FilterMatched}
        /\ out.totalResults = Cardinality(FilterMatched)
        /\ (DOMAIN res.filter = {} => out.totalResults = Len(users))
        /\ (FilterMatched = {} =>
                out.results = <<>> /\ out.totalResults = 0 /\ out.totalPages = 0)

C1_Witness ==
    /\ res.called
    /\ DOMAIN res.filter = {"name", "role"}
    /\ Len(users) = 3
    /\ out.totalResults = 1
    /\ Len(out.results) = 1

\* C2: for limit >= 1 and page >= 1, totalPages = ceil(totalResults / limit),
\* results has min(limit, max(0, totalResults - limit*(page-1))) rows, and
\* they are the rows from offset (page-1)*limit of the sorted matching set.
C2_PageMath ==
    (res.called /\ res.limit.k = "num" /\ res.limit.n >= 1
                /\ res.page.k = "num" /\ res.page.n >= 1) =>
        LET l == res.limit.n
            p == res.page.n
            total == out.totalResults
        IN  /\ total = Cardinality(FilterMatched)
            /\ out.totalPages * l >= total
            /\ (out.totalPages - 1) * l < total
            /\ Len(out.results) = Min(l, Max(0, total - l * (p - 1)))
            /\ \E s \in Orderings(users, res.filter, SortOf(res.sortBy)) :
                   \A i \in 1..Len(out.results) :
                       out.results[i] = s[(p - 1) * l + i]

C2_Witness ==
    /\ res.called
    /\ res.limit = Num(2)
    /\ res.page = Num(2)
    /\ out.totalResults = 3
    /\ out.totalPages = 2
    /\ Len(out.results) = 1

\* the limit a call runs with, for the limits of the paging calls
C4_EffectiveLimit ==
    CASE res.limit.k = "num" /\ res.limit.n >= 1 -> res.limit.n
      [] res.limit = Str(<<"2">>)                -> 2
      [] OTHER                                   -> 10

\* C4: a page beyond totalPages (any page of an empty store included) gives
\* results=[] with page the requested page, limit the effective limit and
\* totalPages, totalResults the true counts; the call returns, it does not
\* fail.
C4_BeyondLastPage ==
    /\ (res.called /\ res.page.k = "num" /\ res.page.n > out.totalPages) =>
           /\ out.results = <<>>
           /\ out.page = res.page.n
           /\ out.limit = C4_EffectiveLimit
           /\ out.totalResults = Cardinality(FilterMatched)
           /\ out.totalPages * out.limit >= out.totalResults
           /\ (out.totalPages - 1) * out.limit < out.totalResults
    /\ ~res.called =>
           \A p \in (Len(users) + 1)..(MaxUsers + 1) :
               paginate(users, NoFilter,
                        [sortBy |-> Absent, limit |-> Num(1), page |-> Num(p)]) # {}

C4_Witness ==
    /\ res.called
    /\ res.limit = Num(2)
    /\ res.page = Num(3)
    /\ out.totalResults = 3
    /\ out.totalPages = 2
    /\ out.results = <<>>

\* a numeral: an optional minus sign, then decimal digits and nothing else
IsNumeral(s) ==
    LET ds == IF Len(s) > 0 /\ s[1] = "-" THEN Tail(s) ELSE s
    IN  Len(ds) > 0 /\ \A i \in 1..Len(ds) : IsDigit(ds[i])

NumeralNotPositive(s) == s[1] = "-" \/ \A i \in 1..Len(s) : s[i] = "0"

C3_Invalid(x) ==
    \/ x.k = "absent"
    \/ x.k = "num" /\ x.n <= 0
    \/ x.k = "str" /\ ~IsNumeral(x.s)
    \/ x.k = "str" /\ IsNumeral(x.s) /\ NumeralNotPositive(x.s)

\* C3: a limit that is absent, zero, negative or non-numeric gives limit=10,
\* and a page that is absent, zero, negative or non-numeric gives page=1,
\* each whatever the other option is. A string is numeric when it is an
\* optional minus sign followed by decimal digits and nothing else.
C3_InvalidNormalized ==
    res.called =>
        /\ (C3_Invalid(res.limit) => out.limit = 10)
        /\ (C3_Invalid(res.page) => out.page = 1)

TextLeq(s, t) == ~TextLess(t, s)

StoreIsFixtures ==
    /\ Len(users) = 3
    /\ {<<users[i].name, users[i].role>> : i \in 1..3} = Fixtures

\* C5: a sortBy of several field:direction pairs orders by the first pair
\* and breaks ties by the following ones, left to right; over Alice(user),
\* Bob(user), Carl(admin), "role:desc,name:asc" gives [(user,Alice),
\* (user,Bob),(admin,Carl)], "name:asc" gives [Alice,Bob,Carl] and
\* "name:desc" the reverse.
C5_LeftToRight ==
    res.called =>
        LET r == out.results
            n == Len(r)
            whole == StoreIsFixtures /\ res.filter = NoFilter
                     /\ res.limit = Absent /\ res.page = Absent
        IN  /\ res.sortBy = sRoleDescNameAsc =>
                \A i, j \in 1..n : i < j =>
                    /\ TextLeq(r[j].role, r[i].role)
                    /\ (r[i].role = r[j].role => TextLeq(r[i].name, r[j].name))
            /\ res.sortBy = sRoleAscNameDesc =>
                \A i, j \in 1..n : i < j =>
                    /\ TextLeq(r[i].role, r[j].role)
                    /\ (r[i].role = r[j].role => TextLeq(r[j].name, r[i].name))
            /\ res.sortBy = sNameAscRoleDesc =>
                \A i, j \in 1..n : i < j =>
                    /\ TextLeq(r[i].name, r[j].name)
                    /\ (r[i].name = r[j].name => TextLeq(r[j].role, r[i].role))
            /\ res.sortBy = sNameAsc =>
                \A i, j \in 1..n : i < j => TextLeq(r[i].name, r[j].name)
            /\ res.sortBy = sNameDesc =>
                \A i, j \in 1..n : i < j => TextLeq(r[j].name, r[i].name)
            /\ (whole /\ res.sortBy = sRoleDescNameAsc) =>
                [i \in 1..n |-> <<r[i].role, r[i].name>>]
                    = <<<<"user", "Alice">>, <<"user", "Bob">>, <<"admin", "Carl">>>>
            /\ (whole /\ res.sortBy = sNameAsc) =>
                NamesOf(r) = <<"Alice", "Bob", "Carl">>
            /\ (whole /\ res.sortBy = sNameDesc) =>
                NamesOf(r) = <<"Carl", "Bob", "Alice">>

C5_Witness ==
    /\ res.called
    /\ StoreIsFixtures
    /\ users[1].name = "Carl"
    /\ users[2].name = "Bob"
    /\ res.sortBy = sRoleDescNameAsc
    /\ NamesOf(out.results) = <<"Alice", "Bob", "Carl">>

\* C6 as claimed: the direction is matched whatever its case, so "desc",
\* "DESC" and "Desc" all sort the field in descending order.
C6_AnyCaseDescends ==
    (res.called /\ res.sortBy \in {sNameDesc, sNameDESC, sNameDescCap}) =>
        \A i, j \in 1..Len(out.results) :
            i < j => TextLeq(out.results[j].name, out.results[i].name)

\* C6 as amended: the direction is matched exactly; "desc" sorts the field
\* in descending order, "DESC" and "Desc" sort it in ascending order.
C6_ExactDescOnly ==
    res.called =>
        /\ res.sortBy = sNameDesc =>
            \A i, j \in 1..Len(out.results) :
                i < j => TextLeq(out.results[j].name, out.results[i].name)
        /\ res.sortBy \in {sNameDESC, sNameDescCap} =>
            \A i, j \in 1..Len(out.results) :
                i < j => TextLeq(out.results[i].name, out.results[j].name)

C6_Witness ==
    /\ res.called
    /\ res.sortBy = sNameDESC
    /\ Len(out.results) >= 2
    /\ TextLess(out.results[1].name, out.results[2].name)

\* C7: with no sortBy the results are ordered by createdAt, newest first,
\* whatever the filter and the page.
C7_DefaultNewestFirst ==
    (res.called /\ res.sortBy = Absent) =>
        \A i, j \in 1..Len(out.results) :
            i < j => out.results[i].createdAt >= out.results[j].createdAt

C7_Witness ==
    /\ res.called
    /\ res.sortBy = Absent
    /\ res.filter # NoFilter
    /\ res.page = Num(2)
    /\ Len(users) = 3
    /\ users[1].createdAt < users[3].createdAt
    /\ Len(out.results) = 1
    /\ out.results[1] = users[1]

(***************************************************************************)
(* Properties of the token lifecycle.                                      *)
(***************************************************************************)
\* C8: once a refresh token has been consumed, by a successful refreshAuth
\* or by logout, every later refreshAuth with the same string fails with
\* Unauthorized and issues no new pair.
C8_ConsumedNeverRefreshes ==
    (last.called /\ last.op = "refreshTokens" /\ last.reused) =>
        last.status = UNAUTHORIZED /\ ~last.changed

\* C9: of two refreshAuth requests that looked up the same refresh token row
\* before either consumed it, at most one returns a new pair; the request
\* that finds the row already rotated fails with Unauthorized.
C9_OneWinner ==
    (last.called /\ last.op = "refreshTokens" /\ last.twice) =>
        last.status = UNAUTHORIZED /\ ~last.changed

\* C10: resetPassword succeeds at most once for a reset-password token and
\* verifyEmail at most once for a verify-email token; a later call with the
\* same string fails and changes neither the user nor the tokens table.
C10_SingleUse ==
    (last.called /\ last.op \in {"resetPassword", "verifyEmail"} /\ last.reused) =>
        last.status # NO_CONTENT /\ ~last.changed

\* C11: a persisted token that is blacklisted or whose expiry time has passed
\* is rejected by verifyToken, and so authorises none of refreshAuth,
\* resetPassword and verifyEmail.
C11_RevokedOrExpiredRejected ==
    \A row \in tokens :
        (row.blacklisted \/ row.expires <= clock) =>
            verifyToken(tokens, row.token, row.type, clock) = {}

\* C12: a refreshAuth that fails the verification of the presented refresh
\* token rotates nothing: the tokens table is unchanged, no row is deleted
\* and no new token is issued or persisted.
C12_FailedRefreshRotatesNothing ==
    [][(~last.called /\ last'.called /\ last'.op = "refreshTokens"
            /\ last'.status = UNAUTHORIZED) =>
          (tokens' = tokens /\ nextTokenId' = nextTokenId /\ used' = used
            /\ ~last'.changed)]_vars

C12_Witness ==
    /\ last.called
    /\ last.op = "refreshTokens"
    /\ last.status = UNAUTHORIZED
    /\ \E row \in tokens :
           /\ row.type = tokenTypes.REFRESH
           /\ row.expires <= clock
           /\ ~row.blacklisted

(***************************************************************************)
(* Properties of the auth middleware.                                      *)
(***************************************************************************)
\* the time an access token is given as its expiry when it is generated
GivenExpiry(token) == token.iat + Lifetime(tokenTypes.ACCESS)

\* C13: an access token generated with a given expiry verifies at every
\* time before that expiry and fails with Unauthorized at every time after
\* it, whatever the tokens table holds.
C13_AccessUntilExpiry ==
    (mw.called /\ mw.token # NotAToken /\ mw.token.type = tokenTypes.ACCESS
               /\ getUserById(users, mw.token.sub) # {}) =>
        /\ clock < GivenExpiry(mw.token) => mw.user.id = mw.token.sub
        /\ clock > GivenExpiry(mw.token) =>
               mw.user = NoUser /\ mw.status = UNAUTHORIZED

C13_Witness ==
    /\ mw.called
    /\ mw.token.type = tokenTypes.ACCESS
    /\ clock = GivenExpiry(mw.token) - 1
    /\ mw.user.id = mw.token.sub
    /\ mw.resolved
    /\ tokens = {}
    /\ used # {}

\* the request of mw carries a signed access token that has not expired and
\* whose user exists
Authenticated ==
    /\ mw.token # NotAToken
    /\ mw.token.type = tokenTypes.ACCESS
    /\ clock < mw.token.exp
    /\ \E i \in 1..Len(users) : users[i].id = mw.token.sub

Requester == users[CHOOSE i \in 1..Len(users) : users[i].id = mw.token.sub]

HoldsEveryRight ==
    \/ Requester.role = "admin" /\ mw.rights \subseteq {"getUsers", "manageUsers"}
    \/ mw.rights = {}

Allowed ==
    /\ Authenticated
    /\ \/ mw.rights = {}
       \/ HoldsEveryRight
       \/ mw.userId = Requester.id

ExpectedType(op) ==
    CASE op = "refreshTokens" -> tokenTypes.REFRESH
      [] op = "logout"        -> tokenTypes.REFRESH
      [] op = "resetPassword" -> tokenTypes.RESET_PASSWORD
      [] op = "verifyEmail"   -> tokenTypes.VERIFY_EMAIL

\* C20: verifyToken fails whenever the type in the token differs from the
\* expected type: no operation accepts a signed, unexpired token of
\* another kind, and the auth middleware answers 401 to a bearer token that
\* is not an access token.
C20_TypeMismatchRejected ==
    /\ \A token \in HeldStrings, type \in TokenTypeSet :
           token.type # type => verifyToken(tokens, token, type, clock) = {}
    /\ \A e \in used : e.token.type = ExpectedType(e.op)
    /\ \A r \in Requests :
           slots[r].pc = "verified" => slots[r].token.type = tokenTypes.REFRESH
    /\ (mw.called /\ mw.token.type # tokenTypes.ACCESS) =>
           ~mw.resolved /\ mw.status = UNAUTHORIZED

C20_Witness ==
    /\ mw.called
    /\ mw.token.type = tokenTypes.REFRESH
    /\ mw.status = UNAUTHORIZED
    /\ \E row \in tokens :
           row.token = mw.token /\ ~row.blacklisted /\ row.expires > clock
    /\ \E e \in used : e.op = "resetPassword"
    /\ \E row \in tokens : row.type = tokenTypes.VERIFY_EMAIL /\ ~row.blacklisted

(***************************************************************************)
(* Properties of the error middleware.                                     *)
(***************************************************************************)
\* C17: a sequelize ValidationError or DatabaseError that carries no
\* statusCode reaches the client as a 400 response with the message of the
\* error, in development, in test and in production.
C17_StoreErrorIs400 ==
    (fault.stage = "sent" /\ fault.thrown.kind \in StoreErrors
            /\ fault.thrown.statusCode = 0 /\ fault.thrown.message # "") =>
        /\ fault.reply.status = BAD_REQUEST
        /\ fault.reply.code = BAD_REQUEST
        /\ fault.reply.message = fault.thrown.message

\* C18: in production an error that is not operational is answered with 500
\* and 'Internal Server Error', not with its own status and message; an
\* operational ApiError keeps its status and its message; only in
\* development does the response carry a stack.
C18_ProductionMasks ==
    fault.stage = "sent" =>
        /\ (fault.env = "production" /\ ~fault.err.isOperational) =>
               /\ fault.reply.status = INTERNAL_SERVER_ERROR
               /\ fault.reply.code = INTERNAL_SERVER_ERROR
               /\ fault.reply.message = "Internal Server Error"
        /\ (fault.thrown.kind = "ApiError" /\ fault.thrown.isOperational) =>
               /\ fault.reply.status = fault.thrown.statusCode
               /\ fault.reply.code = fault.thrown.statusCode
               /\ fault.reply.message = fault.thrown.message
        /\ fault.reply.stack # NoStack <=> fault.env = "development"

C18_Witness ==
    /\ fault.stage = "sent"
    /\ fault.env = "production"
    /\ fault.thrown.kind = "Error"
    /\ fault.thrown.statusCode = NOT_FOUND
    /\ fault.thrown.message = "relation does not exist"
    /\ fault.reply.status = INTERNAL_SERVER_ERROR
    /\ fault.reply.message = "Internal Server Error"

(***************************************************************************)
(* Properties of the user service.                                         *)
(***************************************************************************)
\* C14: no two stored users have the same email, and emails are stored
\* lower-cased and trimmed; createUser with an email that is taken, and
\* updateUserById to the email of another user, fail with 'Email already
\* taken' and leave the table as it was; updating a user to its own email
\* succeeds.
C14_EmailUnique ==
    /\ \A i, j \in 1..Len(users) : i # j => users[i].email # users[j].email
    /\ \A i \in 1..Len(users) : users[i].email = LowerTrim(users[i].email)
    /\ (svc.called /\ svc.op = "createUser" /\ svc.taken) =>
           svc.error = EmailTaken /\ ~svc.changed
    /\ (svc.called /\ svc.op = "updateUserById" /\ svc.before # NoUser
            /\ svc.taken) =>
           svc.error = EmailTaken /\ ~svc.changed
    /\ (svc.called /\ svc.op = "updateUserById" /\ svc.own) =>
           svc.error = NoError

\* C15: a stored password is never the plaintext that was supplied; a save
\* that changes the password hashes it and a save that does not leaves the
\* hash as it was, so isPasswordMatch accepts exactly the last plaintext
\* set; the JSON form of a user has no password field.
C15_PasswordHashed ==
    /\ \A i \in 1..Len(users) :
           /\ users[i].password \notin AuthPasswords
           /\ "password" \notin DOMAIN toJSON(users[i])
           /\ \E p \in AuthPasswords :
                  \A q \in AuthPasswords : isPasswordMatch(users[i], q) <=> q = p
    /\ (svc.called /\ svc.error = NoError
            /\ svc.op \in {"createUser", "updateUserById"}) =>
           LET row == RowOf(users, svc.id)
           IN  IF "password" \in DOMAIN svc.body
               THEN /\ row.password # svc.body.password
                    /\ \A q \in AuthPasswords :
                           isPasswordMatch(row, q) <=> q = svc.body.password
               ELSE svc.op = "updateUserById" /\ row.password = svc.before.password

C15_Witness ==
    /\ svc.called
    /\ svc.op = "updateUserById"
    /\ svc.error = NoError
    /\ svc.body = [name |-> "Zed"]
    /\ svc.before.name = "Alice"
    /\ svc.before.password = Hash(<<"password2">>)
    /\ RowOf(users, svc.id).name = "Zed"
    /\ isPasswordMatch(RowOf(users, svc.id), <<"password2">>)

\* C16: the userId of every persisted token is the id of an existing user;
\* deleting a user deletes the tokens the user owns, so no refresh,
\* reset-password or verify-email token of a deleted user verifies.
C16_TokensOfExistingUsers ==
    /\ \A row \in tokens : getUserById(users, row.userId) # {}
    /\ \A token \in TokenStrings, type \in TokenTypeSet :
           getUserById(users, token.sub) = {} =>
               verifyToken(tokens, token, type, clock) = {}

C16_Witness ==
    /\ svc.called
    /\ svc.op = "deleteUserById"
    /\ svc.error = NoError
    /\ svc.owned >= 2
    /\ users # <<>>
    /\ tokens # {}
    /\ \E r \in Requests :
           slots[r].pc = "verified" /\ slots[r].doc.userId = svc.id

(***************************************************************************)
(* Properties of the auth controller.                                      *)
(***************************************************************************)
\* the users whose stored email is the given one
OwnersOf(email) == {i \in 1..Len(users) : users[i].email = email}

\* C21: generateResetPasswordToken for an email that no user owns fails with
\* NotFound, persists no token, and the forgot-password handler then sends
\* no email; for an email a user owns it persists exactly one
\* reset-password token for that user.
C21_ResetTokenForOwnerOnly ==
    [][(~last.called /\ last'.called /\ last'.op = "forgotPassword"
            /\ last'.email # "") =>
          IF OwnersOf(last'.email) = {}
          THEN /\ last'.status = NOT_FOUND
               /\ tokens' = tokens
               /\ nextTokenId' = nextTokenId
               /\ "emailService" \notin last'.calls
          ELSE /\ tokens \subseteq tokens'
               /\ Cardinality(tokens' \ tokens) = 1
               /\ \A row \in tokens' \ tokens :
                      /\ row.type = tokenTypes.RESET_PASSWORD
                      /\ \E i \in OwnersOf(last'.email) : row.userId = users[i].id
                      /\ row.token.sub = row.userId
                      /\ row.token.type = tokenTypes.RESET_PASSWORD
                      /\ ~row.blacklisted
                      /\ \A old \in tokens : old.id # row.id]_vars

C21_Witness ==
    /\ last.called
    /\ last.op = "forgotPassword"
    /\ last.status = NO_CONTENT
    /\ last.email = "bob.user@example.com"
    /\ Len(users) = 2
    /\ Cardinality({row \in tokens : row.type = tokenTypes.RESET_PASSWORD}) = 1
    /\ \E row \in tokens :
           /\ row.type = tokenTypes.RESET_PASSWORD
           /\ row.userId = users[2].id
           /\ users[2].email = "bob.user@example.com"


\* the persisted refresh tokens that are not blacklisted and hold the string
LiveRefreshRows(token) ==
    {row \in tokens :
        /\ row.token = token
        /\ row.type = tokenTypes.REFRESH
        /\ ~row.blacklisted}

\* C22: logout with a token string that matches no persisted,
\* non-blacklisted refresh token fails with NotFound and leaves the token
\* store unchanged; logout with a matching token removes or blacklists
\* exactly that token and no other.
C22_LogoutConsumesOneOrNone ==
    [][(~last.called /\ last'.called /\ last'.op = "logout"
            /\ last'.token # NoString) =>
          IF LiveRefreshRows(last'.token) = {}
          THEN /\ last'.status = NOT_FOUND
               /\ tokens' = tokens
          ELSE /\ last'.status = NO_CONTENT
               /\ \E doc \in LiveRefreshRows(last'.token) :
                      \/ tokens' = tokens \ {doc}
                      \/ tokens' = (tokens \ {doc})
                                     \cup {[doc EXCEPT !.blacklisted = TRUE]}]_vars

C22_Witness ==
    /\ last.called
    /\ last.op = "logout"
    /\ last.status = NO_CONTENT
    /\ \E row \in tokens : row.token = last.token /\ row.blacklisted
    /\ \E row \in tokens :
           /\ row.userId = last.token.sub
           /\ row.token # last.token
           /\ ~row.blacklisted
    /\ \E row \in tokens : row.userId # last.token.sub /\ ~row.blacklisted


\* the user a pair is issued to in the step: the user registered, the user
\* of the address logged in with, or the user of the row rotated
IssuedTo(userId) ==
    CASE last'.op = "register" ->
             userId = users'[Len(users')].id /\ Len(users') = Len(users) + 1
      [] last'.op = "login" ->
             \E i \in OwnersOf(last'.email) : users[i].id = userId
      [] last'.op = "refreshTokens" ->
             \E r \in Requests :
                 /\ slots[r].pc = "verified"
                 /\ slots'[r].pc = "idle"
                 /\ slots[r].doc.userId = userId

\* C23: every generateAuthTokens call (on register, login and refresh)
\* persists exactly one new refresh token for the user and never the access
\* token: in every reachable state no persisted token has type access.
C23_OnlyRefreshPersisted ==
    [][/\ \A row \in tokens' : row.type # tokenTypes.ACCESS
       /\ (~last.called /\ last'.called
               /\ last'.op \in {"register", "login", "refreshTokens"}
               /\ last'.status \in {CREATED, OK}) =>
             LET new == {row \in tokens' : \A old \in tokens : old.id # row.id}
             IN  /\ Cardinality(new) = 1
                 /\ \A row \in new :
                        /\ row.type = tokenTypes.REFRESH
                        /\ row.token.type = tokenTypes.REFRESH
                        /\ row.token.sub = row.userId
                        /\ ~row.blacklisted
                        /\ IssuedTo(row.userId)]_vars

C23_Witness ==
    /\ last.called
    /\ last.op = "refreshTokens"
    /\ last.status = OK
    /\ Len(users) = 2
    /\ Cardinality({row \in tokens : row.type = tokenTypes.REFRESH
                                        /\ ~row.blacklisted}) = 2
    /\ \E e \in used : e.op = "refreshTokens"


\* the inputs a handler requires
Required(op) ==
    CASE op = "logout"         -> {"refreshToken"}
      [] op = "refreshTokens"  -> {"refreshToken"}
      [] op = "forgotPassword" -> {"email"}
      [] op = "resetPassword"  -> {"password", "token"}
      [] op = "verifyEmail"    -> {"token"}
      [] OTHER                 -> {}

\* C30: the auth controller rejects a request that lacks its required input
\* before any service is invoked: logout and refreshTokens without
\* refreshToken, forgotPassword without email, resetPassword without
\* password or without token, and verifyEmail without token each answer 400
\* and never call the auth, token or email service, so no token or user
\* state changes.
C30_MissingInputRejectedFirst ==
    [][(~last.called /\ last'.called
            /\ ~(Required(last'.op) \subseteq last'.given)) =>
          /\ last'.status = BAD_REQUEST
          /\ last'.calls = {}
          /\ ~last'.changed
          /\ UNCHANGED <<users, tokens, nextTokenId, slots, used>>]_vars

C30_Witness ==
    /\ last.called
    /\ last.op = "resetPassword"
    /\ last.status = BAD_REQUEST
    /\ last.given = {"token"}
    /\ \E row \in tokens :
           row.type = tokenTypes.RESET_PASSWORD /\ ~row.blacklisted
    /\ \E r \in Requests : slots[r].pc = "verified"


\* C28: two concurrent requests that each issue a token for the same user do
\* not conflict: under every interleaving both succeed and both tokens are
\* persisted as independent rows, neither overwriting or invalidating the
\* other.
C28_ConcurrentIssuesIndependent ==
    [][\A r \in Requests :
          (slots[r].pc = "checked" /\ slots'[r].pc = "idle") =>
              /\ last'.called
              /\ last'.op = "login"
              /\ last'.status = OK
              /\ tokens \subseteq tokens'
              /\ Cardinality(tokens') = Cardinality(tokens) + 1
              /\ \A row \in tokens' \ tokens :
                     /\ row.userId = slots[r].userId
                     /\ row.type = tokenTypes.REFRESH
                     /\ ~row.blacklisted
                     /\ \A old \in tokens : old.id # row.id]_vars

\* one of two logins of a user that were in flight together has issued its
\* pair, the other is still to issue its own
C28_Witness ==
    /\ last.called
    /\ last.op = "login"
    /\ last.status = OK
    /\ nextTokenId <= MaxTokens
    /\ \E r \in Requests, row \in tokens :
           /\ slots[r].pc = "checked"
           /\ row.id = nextTokenId - 1
           /\ row.userId = slots[r].userId
           /\ \E other \in tokens :
                  other.id # row.id /\ other.userId = row.userId


queryOrder == res.queries[1].options.order

\* C24: a sortBy pair whose direction is anything other than exactly "desc"
\* ("asc", a missing direction as in "name", or any other string) sorts
\* that field in ascending order.
C24_NotDescAscends ==
    res.called =>
        LET r == out.results
            n == Len(r)
        IN  /\ res.sortBy \in {sName, sNameBlank, sNameUp, sNameAsc} =>
                /\ queryOrder[1].dir = "ASC"
                /\ \A i, j \in 1..n : i < j => TextLeq(r[i].name, r[j].name)
            /\ res.sortBy \in {sRole, sRoleAsc} =>
                /\ queryOrder[1].dir = "ASC"
                /\ \A i, j \in 1..n : i < j => TextLeq(r[i].role, r[j].role)
            /\ res.sortBy = sRoleNameDesc =>
                /\ queryOrder[1].dir = "ASC"
                /\ queryOrder[2].dir = "DESC"
                /\ \A i, j \in 1..n : i < j =>
                       /\ TextLeq(r[i].role, r[j].role)
                       /\ (r[i].role = r[j].role => TextLeq(r[j].name, r[i].name))

C24_Witness ==
    /\ res.called
    /\ res.sortBy = sName
    /\ Len(users) = 3
    /\ TextLess(users[3].name, users[1].name)
    /\ Len(out.results) = 3
    /\ TextLess(out.results[1].name, out.results[3].name)

\* the attributes of the User model that are ENUMs
EnumAttributes == {"role"}

\* the attribute the i-th pair of the sortBy of the call names
KeyOf(i) == AttributeOf(Split(Split(res.sortBy.s, ",")[i], ":")[1])

\* the direction the i-th pair of the sortBy of the call gives
OrderOf(i) ==
    LET parts == Split(Split(res.sortBy.s, ",")[i], ":")
    IN  IF Len(parts) >= 2 /\ parts[2] = cDesc THEN "DESC" ELSE "ASC"

\* C25: for every sortBy key that names an ENUM attribute of the model,
\* paginate orders by that column cast to TEXT, so rows sort by the value's
\* lexicographic text and not by the enumeration's declared ordinal
\* (role:desc puts 'user' before 'admin' whatever the declaration order),
\* keeping the parsed direction; every other key is ordered on the plain
\* column.
C25_EnumSortedAsText ==
    (res.called /\ Truthy(res.sortBy)) =>
        LET r == out.results
            n == Len(r)
        IN  /\ Len(queryOrder) = Len(Split(res.sortBy.s, ","))
            /\ \A i \in 1..Len(queryOrder) :
                   /\ queryOrder[i].key = KeyOf(i)
                   /\ queryOrder[i].cast <=> KeyOf(i) \in EnumAttributes
                   /\ queryOrder[i].dir = OrderOf(i)
            /\ res.sortBy = sRoleDesc =>
                   \A i, j \in 1..n :
                       (r[i].role = "admin" /\ r[j].role = "user") => j < i
            /\ res.sortBy \in {sRole, sRoleAsc, sRoleNameDesc} =>
                   \A i, j \in 1..n :
                       (r[i].role = "admin" /\ r[j].role = "user") => i < j

C25_Witness ==
    /\ res.called
    /\ res.sortBy = sRoleDesc
    /\ Len(users) = 3
    /\ users[1].role = "admin"
    /\ users[3].role = "user"
    /\ EnumOrdinal("user") < EnumOrdinal("admin")
    /\ Len(out.results) = 3
    /\ out.results[1].role = "user"
    /\ out.results[3].role = "admin"


\* the sortBy of the call tells every two matching rows apart
TotallyOrders(table, where, sortBy) ==
    \A a, b \in MatchingIds(table, where) :
        a # b => \/ Before(SortOf(sortBy), table[a], table[b])
                 \/ Before(SortOf(sortBy), table[b], table[a])

\* every result page p of the call res holds can have on the present store
PageOfCall(p) ==
    paginate(users, res.filter,
             [sortBy |-> res.sortBy, limit |-> res.limit, page |-> Num(p),
              populate |-> Absent])

\* the results of pages 1..n, one after the other
RECURSIVE PagesUpTo(_)
PagesUpTo(n) ==
    IF n = 0 THEN <<>>
    ELSE PagesUpTo(n - 1) \o (CHOOSE o \in PageOfCall(n) : TRUE).results

\* C27: for a fixed store content, filter, limit and a sortBy that totally
\* orders the matching rows, the results of pages 1..totalPages
\* concatenated in order are exactly the sorted matching rows: every
\* matching row appears on exactly one page, none is skipped or repeated.
C27_PagesPartitionSortedRows ==
    (res.called /\ ~res.failed /\ TotallyOrders(users, res.filter, res.sortBy)) =>
        LET sorted == Orderings(users, res.filter, SortOf(res.sortBy))
            n == out.totalPages
            all == PagesUpTo(n)
        IN  /\ \A p \in 1..n : Cardinality(PageOfCall(p)) = 1
            /\ out.page \in 1..n => PageOfCall(out.page) = {out}
            /\ sorted = {all}
            /\ \A id \in MatchingIds(users, res.filter) :
                   Cardinality({i \in 1..Len(all) : all[i] = users[id]}) = 1

\* the last of several pages of a totally ordered store, not a full one
C27_Witness ==
    /\ res.called
    /\ ~res.failed
    /\ TotallyOrders(users, res.filter, res.sortBy)
    /\ out.totalPages >= 2
    /\ out.page = out.totalPages
    /\ out.totalResults % out.limit # 0
    /\ Len(out.results) = out.totalResults % out.limit


(***************************************************************************)
(* Properties of the process.                                              *)
(***************************************************************************)
Logged(message) == \E i \in 1..Len(proc.log) : proc.log[i] = message

LoggedBefore(first, second) ==
    \E i, j \in 1..Len(proc.log) :
        i < j /\ proc.log[i] = first /\ proc.log[j] = second

\* C29: the process follows the order authenticate database -> listen ->
\* (on uncaughtException or unhandledRejection) close server -> close
\* database connection -> exit(1): the server never listens before database
\* authentication has succeeded, a failed authentication exits with code 1
\* without ever listening, and once the server has started the process
\* never exits through the error handler before the server and then the
\* database connection are closed.
C29_LifecycleOrder ==
    /\ proc.server # "undefined" =>
           /\ proc.db \in {"connected", "closed"}
           /\ Logged("Connected to PostgreSQL")
    /\ Logged("Listening to port") =>
           LoggedBefore("Connected to PostgreSQL", "Listening to port")
    /\ proc.db = "failed" =>
           /\ proc.exit = [code |-> 1, by |-> "catch"]
           /\ proc.server = "undefined"
           /\ ~Logged("Listening to port")
    /\ (proc.dbClosing > 0 \/ proc.db = "closed") =>
           /\ proc.server = "closed"
           /\ proc.conns = 0
    /\ (proc.exit.by = "exitHandler" /\ proc.server # "undefined") =>
           /\ proc.exit.code = 1
           /\ proc.server = "closed"
           /\ proc.db = "closed"
           /\ LoggedBefore("Server closed", "Database connection closed")
    /\ proc.exit # Running => proc.exit.code = 1

\* the listening server was closed by the error handler after every event
\* the process can receive, and the process has exited
C29_Witness ==
    /\ proc.exit.by = "exitHandler"
    /\ LoggedBefore("Listening to port", "Server closed")
    /\ proc.db = "closed"
    /\ proc.events = MaxEvents
====
